---- MODULE Spec2Model ----
(***************************************************************************)
(* Connect 4 solver (PascalPons/connect4): the bitboard Position, the      *)
(* transposition table, the move sorter and the null-window negamax        *)
(* solver with its line-oriented driver.                                   *)
(*                                                                         *)
(* Position::WIDTH and Position::HEIGHT are compile-time parameters of the *)
(* source (7 and 6 there).  They are instantiated here for the smallest    *)
(* board on which all four alignment directions exist, so that the search  *)
(* can be explored exhaustively; every other constant is derived from them *)
(* by the source's own formulas.                                           *)
(*                                                                         *)
(* A bitboard (position_t) is modelled as the set of the indexes of its    *)
(* one bits; arithmetic on bitboards goes through BitsToNat / NatToBits.   *)
(***************************************************************************)
EXTENDS Integers, Sequences, FiniteSets, TLC

WIDTH == 4
HEIGHT == 4

\* width in bits of position_t (uint64_t when WIDTH*(HEIGHT+1) <= 64)
WordBits == 64

------------------------------------------------------------------------------
(* Bitboard arithmetic *)

RECURSIVE NatToBitsFrom(_, _)
NatToBitsFrom(n, b) ==
  IF n = 0 \/ b >= WordBits THEN {}
  ELSE (IF n % 2 = 1 THEN {b} ELSE {}) \cup NatToBitsFrom(n \div 2, b + 1)

\* the bits of an unsigned integer
NatToBits(n) == NatToBitsFrom(n, 0)

RECURSIVE BitsToNat(_)
\* the unsigned integer of a set of bits
BitsToNat(S) ==
  IF S = {} THEN 0
  ELSE LET b == CHOOSE x \in S : TRUE IN 2^b + BitsToNat(S \ {b})

\* x << k on position_t: bits shifted out of the word are lost
Shl(S, k) == {x \in {b + k : b \in S} : x < WordBits}

\* x >> k on position_t
Shr(S, k) == {b - k : b \in {x \in S : x >= k}}

\* a ^ b
Xor(A, B) == (A \ B) \cup (B \ A)

\* a + b on position_t
Plus(A, B) == NatToBits(BitsToNat(A) + BitsToNat(B))

\* C++ integer division by 2, truncating toward zero
Half(x) == IF x >= 0 THEN x \div 2 ELSE -((-x) \div 2)

------------------------------------------------------------------------------
(* Position: static bitmaps *)

RECURSIVE bottom(_, _)
bottom(width, height) ==
  IF width = 0 THEN {}
  ELSE bottom(width - 1, height) \cup Shl({0}, (width - 1) * (height + 1))

bottom_mask == bottom(WIDTH, HEIGHT)

board_mask == NatToBits(BitsToNat(bottom_mask) * (2^HEIGHT - 1))

top_mask_col(col) == Shl({0}, (HEIGHT - 1) + col * (HEIGHT + 1))

bottom_mask_col(col) == Shl({0}, col * (HEIGHT + 1))

column_mask(col) == Shl(NatToBits(2^HEIGHT - 1), col * (HEIGHT + 1))

MIN_SCORE == Half(-(WIDTH * HEIGHT)) + 3

MAX_SCORE == Half(WIDTH * HEIGHT + 1) - 3

------------------------------------------------------------------------------
(* Position: a record [current_position, mask, moves] *)

EmptyPosition == [current_position |-> {}, mask |-> {}, moves |-> 0]

popcount(m) == Cardinality(m)

\* compute_winning_position with the vertical alignments only
compute_winning_positionVertical(position, mask) ==
  Shl(position, 1) \cap Shl(position, 2) \cap Shl(position, 3)
    \cap Xor(board_mask, mask)

compute_winning_position(position, mask) ==
  LET H1 == HEIGHT + 1
      H0 == HEIGHT
      H2 == HEIGHT + 2
      \* vertical
      r0 == Shl(position, 1) \cap Shl(position, 2) \cap Shl(position, 3)
      \* one line direction with shift amount d
      dir(d) ==
        LET p == Shl(position, d) \cap Shl(position, 2 * d)
            q == Shr(position, d) \cap Shr(position, 2 * d)
        IN  (p \cap Shl(position, 3 * d)) \cup (p \cap Shr(position, d))
            \cup (q \cap Shl(position, d)) \cup (q \cap Shr(position, 3 * d))
      r == r0 \cup dir(H1) \cup dir(H0) \cup dir(H2)
  IN  r \cap Xor(board_mask, mask)

winning_position(P) == compute_winning_position(P.current_position, P.mask)

opponent_winning_position(P) ==
  compute_winning_position(Xor(P.current_position, P.mask), P.mask)

\* possible() without the mask of the board: the carry of a full column shows
possibleWithSentinel(P) == Plus(P.mask, bottom_mask)

\* possible() as the cells above the stones: the empty columns are missed
possibleAboveStones(P) == Shl(P.mask, 1) \cap board_mask

possible(P) == Plus(P.mask, bottom_mask) \cap board_mask

canWinNext(P) == (winning_position(P) \cap possible(P)) # {}

nbMoves(P) == P.moves

\* key() with | in place of +
keyOr(P) == BitsToNat(P.current_position \cup P.mask)

key(P) == BitsToNat(P.current_position) + BitsToNat(P.mask)

\* canPlay() that looks at the cell above the top one
canPlayAboveTop(P, col) == (P.mask \cap Shl(top_mask_col(col), 1)) = {}

canPlay(P, col) == (P.mask \cap top_mask_col(col)) = {}

\* isWinningMove on the winning cells of the opponent
isWinningMoveOfOpponent(P, col) ==
  (opponent_winning_position(P) \cap possible(P) \cap column_mask(col)) # {}

isWinningMove(P, col) ==
  (winning_position(P) \cap possible(P) \cap column_mask(col)) # {}

\* Position::play(position_t move)
play(P, move) ==
  [current_position |-> Xor(P.current_position, P.mask),
   mask |-> P.mask \cup move,
   moves |-> P.moves + 1]

playCol(P, col) == play(P, Plus(P.mask, bottom_mask_col(col)) \cap column_mask(col))

moveScore(P, move) ==
  popcount(compute_winning_position(P.current_position \cup move, P.mask))

\* possibleNonLosingMoves that keeps the moves below a winning cell of the
\* opponent
possibleMovesBelowToo(P) ==
  LET forced_moves == possible(P) \cap opponent_winning_position(P)
  IN  IF Cardinality(forced_moves) > 1 THEN {}
      ELSE IF forced_moves # {} THEN forced_moves ELSE possible(P)

\* every possible move, losing or not
possibleMovesLosingToo(P) == possible(P)

\* the assertion !canWinNext() is checked by the caller, see NegamaxEnter
possibleNonLosingMoves(P) ==
  LET possible_mask == possible(P)
      opponent_win == opponent_winning_position(P)
      forced_moves == possible_mask \cap opponent_win
      \* forced_moves & (forced_moves - 1): more than one forced move
      several == forced_moves # {}
                 /\ (forced_moves \cap NatToBits(BitsToNat(forced_moves) - 1)) # {}
  IN  IF several THEN {}
      ELSE (IF forced_moves # {} THEN forced_moves ELSE possible_mask)
           \ Shr(opponent_win, 1)

RECURSIVE partialKey3From(_, _, _)
\* the loop of partialKey3 from bit pos on, then the final key *= 3
partialKey3From(P, k, pos) ==
  IF pos \in P.mask
  THEN partialKey3From(P, k * 3 + (IF pos \in P.current_position THEN 1 ELSE 2), pos + 1)
  ELSE k * 3

partialKey3(P, k, col) == partialKey3From(P, k, col * (HEIGHT + 1))

RECURSIVE key3_forward(_, _, _)
key3_forward(P, k, i) ==
  IF i >= WIDTH THEN k ELSE key3_forward(P, partialKey3(P, k, i), i + 1)

RECURSIVE key3_reverse(_, _, _)
key3_reverse(P, k, i) ==
  IF i = 0 THEN k ELSE key3_reverse(P, partialKey3(P, k, i - 1), i - 1)

\* key3() that always takes the key of the increasing order of columns
key3ForwardOnly(P) == key3_forward(P, 0, 0) \div 3

key3(P) ==
  LET key_forward == key3_forward(P, 0, 0)
      key_reverse == key3_reverse(P, 0, WIDTH)
  IN  IF key_forward < key_reverse THEN key_forward \div 3 ELSE key_reverse \div 3

RECURSIVE playSeqFrom(_, _, _)
\* Position::play(seq) from character i (1-based) on: [P, ret]
playSeqFrom(P, seq, i) ==
  IF i > Len(seq) THEN [P |-> P, ret |-> Len(seq)]
  ELSE LET col == seq[i] - 49   \* seq[i] - '1'
       IN  IF col < 0 \/ col >= WIDTH \/ ~canPlay(P, col) \/ isWinningMove(P, col)
           THEN [P |-> P, ret |-> i - 1]
           ELSE playSeqFrom(playCol(P, col), seq, i + 1)

playSeq(P, seq) == playSeqFrom(P, seq, 1)

------------------------------------------------------------------------------
(* TranspositionTable<partial_key_t, key_t, value_t, log_size> *)

med(min, max) == (min + max) \div 2

RECURSIVE has_factor(_, _, _)
\* min * min > n is written min > n \div min, which is the same for min >= 1
\* and stays within 32 bits
has_factor(n, min, max) ==
  IF min > n \div min THEN FALSE
  ELSE IF min + 1 >= max THEN n % min = 0
  ELSE has_factor(n, min, med(min, max)) \/ has_factor(n, med(min, max), max)

RECURSIVE next_prime(_)
next_prime(n) == IF has_factor(n, 2, n) THEN next_prime(n + 1) ELSE n

\* number of bits of uint_t<S>
uint_t(S) == IF S <= 8 THEN 8 ELSE IF S <= 16 THEN 16 ELSE IF S <= 32 THEN 32 ELSE 64

\* log2 of the number of entries of the solver's table (Solver::TABLE_SIZE)
TABLE_SIZE == 4

\* a table is a record [size, kbits, K, V]; kbits = 8 * sizeof(partial_key_t)
NewTable(kbits, log_size) ==
  LET size == next_prime(2^log_size)
  IN  [size |-> size, kbits |-> kbits,
       K |-> [i \in 0..(size - 1) |-> 0], V |-> [i \in 0..(size - 1) |-> 0]]

\* a partial key of two bits, too few to tell the keys of a slot apart
TruncateToTwoBits(k, kbits) == k % 4

\* conversion of a key to partial_key_t
Truncate(k, kbits) == IF kbits >= 31 THEN k ELSE k % (2^kbits)

index(T, k) == k % T.size

TableReset(T) ==
  [T EXCEPT !.K = [i \in 0..(T.size - 1) |-> 0], !.V = [i \in 0..(T.size - 1) |-> 0]]

\* value_t is uint8_t
TablePut(T, k, value) ==
  [T EXCEPT !.K[index(T, k)] = Truncate(k, T.kbits), !.V[index(T, k)] = value % 256]

\* get() that does not compare the stored partial key
TableGetAnyKey(T, k) == T.V[index(T, k)]

TableGet(T, k) ==
  IF T.K[index(T, k)] = Truncate(k, T.kbits) THEN T.V[index(T, k)] ELSE 0

------------------------------------------------------------------------------
(* OpeningBook: [depth, T]; T = NullTable until a load succeeds *)

NullTable == [size |-> 0, kbits |-> 0, K |-> << >>, V |-> << >>]

EmptyBook == [depth |-> -1, T |-> NullTable]

\* the sizes and the partial keys initTranspositionTable has a table for
BookLogSizes == 21..27

BookKeyBytes == {1, 2, 4}

\* TranspositionTable<..., log_size>::size of these tables
BigSize == [log_size \in BookLogSizes |-> next_prime(2^log_size)]

\* a table made by initTranspositionTable has 2^21 slots or more: it is the
\* record [size, kbits, K, V] with K and V defined on the slots written since
\* the constructor zeroed the arrays, every other slot holding 0
BigTable(kbits, log_size) ==
  [size |-> BigSize[log_size], kbits |-> kbits, K |-> << >>, V |-> << >>]

\* element i of such an array
Slot(F, i) == IF i \in DOMAIN F THEN F[i] ELSE 0

BigTablePut(T, k, value) ==
  [T EXCEPT !.K = (index(T, k) :> Truncate(k, T.kbits)) @@ T.K,
            !.V = (index(T, k) :> value % 256) @@ T.V]

BigTableGet(T, k) ==
  IF Slot(T.K, index(T, k)) = Truncate(k, T.kbits) THEN Slot(T.V, index(T, k)) ELSE 0

\* the pointer T after delete T, not set to 0
DeletedTable == [size |-> 0, kbits |-> -1, K |-> << >>, V |-> << >>]

BookGet(B, P) == IF nbMoves(P) > B.depth THEN 0 ELSE BigTableGet(B.T, key3(P))

RECURSIVE log2(_)
log2(n) == IF n <= 1 THEN 0 ELSE log2(n \div 2) + 1

\* conversion of an int to char (signed, 8 bits)
ToChar(x) == ((x + 128) % 256) - 128

initTranspositionTable(partial_key_bytes, log_size) ==
  IF partial_key_bytes \in BookKeyBytes /\ log_size \in BookLogSizes
  THEN BigTable(8 * partial_key_bytes, log_size)
  ELSE NullTable

\* a file: exists, its first bytes (at most 6) as chars in header, and then
\* the arrays of keys and values as they are in memory, of which the file
\* holds the first keyLen and valueLen bytes
NoFile == [exists |-> FALSE, header |-> << >>, K |-> << >>, V |-> << >>,
           keyLen |-> 0, valueLen |-> 0]

\* save() that writes the size of a partial key in bits
BookSaveKeyBits(B) ==
  [exists |-> TRUE,
   header |-> <<ToChar(WIDTH), ToChar(HEIGHT), ToChar(B.depth),
                ToChar(B.T.kbits), ToChar(1), ToChar(log2(B.T.size))>>,
   K |-> B.T.K, V |-> B.T.V,
   keyLen |-> B.T.size * (B.T.kbits \div 8), valueLen |-> B.T.size]

\* OpeningBook::save of a book with a table
BookSave(B) ==
  [exists |-> TRUE,
   header |-> <<ToChar(WIDTH), ToChar(HEIGHT), ToChar(B.depth),
                ToChar(B.T.kbits \div 8), ToChar(1), ToChar(log2(B.T.size))>>,
   K |-> B.T.K, V |-> B.T.V,
   keyLen |-> B.T.size * (B.T.kbits \div 8), valueLen |-> B.T.size]

\* the elements of an array of elements of n bytes that len bytes fill
ReadArray(F, n, len) == [i \in {j \in DOMAIN F : (j + 1) * n <= len} |-> F[i]]

\* load() that sets depth without a look at the state of the stream
BookLoadDepthEarly(B, F) ==
  LET failed == [depth |-> -1,
                 T |-> IF B.T = NullTable THEN NullTable ELSE DeletedTable]
      h == F.header
  IN  IF ~F.exists THEN failed
      ELSE IF Len(h) < 1 \/ h[1] # WIDTH THEN failed
      ELSE IF Len(h) < 2 \/ h[2] # HEIGHT THEN failed
      ELSE IF Len(h) < 3 \/ h[3] > WIDTH * HEIGHT THEN failed
      ELSE IF Len(h) < 4 \/ h[4] > 8 THEN failed
      ELSE IF Len(h) < 5 \/ h[5] # 1 THEN failed
      ELSE IF Len(h) < 6 \/ h[6] > 40 THEN failed
      ELSE LET T == initTranspositionTable(h[4], h[6])
           IN  IF T = NullTable THEN [depth |-> -1, T |-> NullTable]
               ELSE LET values == IF F.keyLen < T.size * h[4] THEN 0 ELSE F.valueLen
                        read == [T EXCEPT !.K = ReadArray(F.K, h[4], F.keyLen),
                                          !.V = ReadArray(F.V, 1, values)]
                    IN  [depth |-> h[3], T |-> read]

\* OpeningBook::load: the book after the call.  The data of a file that gets
\* as far as the arrays has the layout its header tells.
BookLoad(B, F) ==
  LET failed == [depth |-> -1,
                 T |-> IF B.T = NullTable THEN NullTable ELSE DeletedTable]
      h == F.header
  IN  IF ~F.exists THEN failed
      ELSE IF Len(h) < 1 \/ h[1] # WIDTH THEN failed
      ELSE IF Len(h) < 2 \/ h[2] # HEIGHT THEN failed
      ELSE IF Len(h) < 3 \/ h[3] > WIDTH * HEIGHT THEN failed
      ELSE IF Len(h) < 4 \/ h[4] > 8 THEN failed
      ELSE IF Len(h) < 5 \/ h[5] # 1 THEN failed
      ELSE IF Len(h) < 6 \/ h[6] > 40 THEN failed
      ELSE LET T == initTranspositionTable(h[4], h[6])
           IN  IF T = NullTable THEN [depth |-> -1, T |-> NullTable]
               ELSE LET values == IF F.keyLen < T.size * h[4] THEN 0 ELSE F.valueLen
                        read == [T EXCEPT !.K = ReadArray(F.K, h[4], F.keyLen),
                                          !.V = ReadArray(F.V, 1, values)]
                    IN  IF F.keyLen < T.size * h[4] \/ F.valueLen < T.size
                        THEN [depth |-> -1, T |-> read]
                        ELSE [depth |-> h[3], T |-> read]

------------------------------------------------------------------------------
(* MoveSorter: the entries[0..size) as a sequence of [move, score] *)

RECURSIVE SorterInsert(_, _, _)
\* the loop of add: shifts the entries with a greater score up from pos
SorterInsert(entries, pos, e) ==
  IF pos > 0 /\ entries[pos].score > e.score
  THEN SorterInsert(entries, pos - 1, e)
  ELSE SubSeq(entries, 1, pos) \o <<e>> \o SubSeq(entries, pos + 1, Len(entries))

\* add() that puts the new entry below the entries of the same score
SorterAddBelowEqual(entries, move, score) ==
  LET below == {i \in 1..Len(entries) : entries[i].score < score}
      pos == Cardinality(below)
  IN  SubSeq(entries, 1, pos) \o <<[move |-> move, score |-> score]>>
        \o SubSeq(entries, pos + 1, Len(entries))

SorterAdd(entries, move, score) ==
  SorterInsert(entries, Len(entries), [move |-> move, score |-> score])

\* getNext: [move, entries]; move = {} (0) when the container is empty
SorterGetNext(entries) ==
  IF Len(entries) > 0
  THEN [move |-> entries[Len(entries)].move, entries |-> SubSeq(entries, 1, Len(entries) - 1)]
  ELSE [move |-> {}, entries |-> entries]

------------------------------------------------------------------------------
(* Solver *)

INVALID_MOVE == -1000

\* Solver::Solver(): the column exploration order
\* columnOrder[i] of a board of this width
columnOrderEntry(width, i) == Half(width) + Half((1 - 2 * (i % 2)) * (i + 1))

columnOrder == [i \in 0..(WIDTH - 1) |-> columnOrderEntry(WIDTH, i)]

\* the solver's table: partial keys of uint_t<WIDTH*(HEIGHT+1) - TABLE_SIZE>
SolverTable == NewTable(uint_t(WIDTH * (HEIGHT + 1) - TABLE_SIZE), TABLE_SIZE)

RECURSIVE SortedMoves(_, _, _, _)
\* negamax: for(int i = WIDTH; i--;) moves.add(move, P.moveScore(move))
SortedMoves(P, possibleMoves, i, entries) ==
  IF i = 0 THEN entries
  ELSE LET move == possibleMoves \cap column_mask(columnOrder[i - 1])
       IN  SortedMoves(P, possibleMoves, i - 1,
                       IF move # {} THEN SorterAdd(entries, move, moveScore(P, move))
                       ELSE entries)

\* the score of a win with the stone after the next one
WinScoreOfNextTurn(P) == Half(WIDTH * HEIGHT - 1 - nbMoves(P))

\* the immediate-win score rounded up instead of down
WinScoreRoundedUp(P) == Half(WIDTH * HEIGHT + 2 - nbMoves(P))

\* the immediate-win score of solve and analyze
WinScore(P) == Half(WIDTH * HEIGHT + 1 - nbMoves(P))

------------------------------------------------------------------------------
(* Input of the driver: lines of characters, given by their ASCII codes *)

\* an opening of legal moves that every input line starts with ("14333441")
Opening == <<49, 52, 51, 51, 51, 52, 52, 49>>

\* the characters that follow it: '0', '1' .. '0' + WIDTH, and '1' + WIDTH
Chars == 48..(49 + WIDTH)

\* most characters after the opening
MaxTail == 2

\* most lines the driver reads
MaxLines == 2

Lines == {Opening \o t : t \in UNION {[1..n -> Chars] : n \in 0..MaxTail}}

------------------------------------------------------------------------------
(* State *)

VARIABLES
  weak,        \* the weak argument of the call in progress (main: option -w)
  analyze,     \* whether the call in progress is analyze (main: option -a)
  nlines,      \* number of lines read, or of calls made
  line,        \* the line being processed
  P,           \* the Position the line was played on
  Q,           \* a second Position object
  out,         \* standard output: one record per line written
  pc,          \* the running function: "main", "analyze", "solve", "negamax",
               \* a return point "main_ret", "analyze_ret", or "abort"
  az,          \* frame of Solver::analyze: [P, col, scores]
  sv,          \* frame of Solver::solve: [P, min, max, med, st, caller]
  stack,       \* frames of Solver::negamax, the innermost last
  ret,         \* value returned by the last call that returned
  transTable,  \* Solver::transTable
  book         \* Solver::book

vars == <<weak, analyze, nlines, line, P, Q, out, pc, az, sv, stack, ret, transTable, book>>

NoAnalyze == [P |-> EmptyPosition, col |-> 0, scores |-> << >>]

NoSolve == [P |-> EmptyPosition, min |-> 0, max |-> 0, med |-> 0,
            st |-> "none", caller |-> "none"]

SolveFrame(pos, caller) == [P |-> pos, min |-> 0, max |-> 0, med |-> 0,
                            st |-> "enter", caller |-> caller]

NegamaxFrame(pos, alpha, beta) ==
  [P |-> pos, alpha |-> alpha, beta |-> beta, moves |-> << >>, st |-> "enter"]

\* the Solver after construction, no call in progress
InitSolver ==
  /\ nlines = 0
  /\ line = << >>
  /\ P = EmptyPosition
  /\ Q = EmptyPosition
  /\ out = << >>
  /\ pc = "main"
  /\ az = NoAnalyze
  /\ sv = NoSolve
  /\ stack = << >>
  /\ ret = 0
  /\ transTable = SolverTable
  /\ book = EmptyBook

\* main after the options are parsed; the opening book file is absent
Init ==
  /\ weak \in BOOLEAN
  /\ analyze \in BOOLEAN
  /\ InitSolver

------------------------------------------------------------------------------
(* main: the loop over the input lines *)

\* the position of line l is built; a valid line calls analyze or solve, an
\* invalid line writes to standard error only
Call(l, w, a) ==
  /\ pc = "main"
  /\ LET r == playSeq(EmptyPosition, l)
     IN  /\ nlines' = nlines + 1
         /\ line' = l
         /\ P' = r.P
         /\ weak' = w
         /\ analyze' = a
         /\ IF r.ret # Len(l)
            THEN /\ pc' = "main"
                 /\ UNCHANGED <<az, sv>>
            ELSE IF a
            THEN /\ pc' = "analyze"
                 /\ az' = [P |-> r.P, col |-> 0,
                           scores |-> [c \in 0..(WIDTH - 1) |-> INVALID_MOVE]]
                 /\ sv' = sv
            ELSE /\ pc' = "solve"
                 /\ sv' = SolveFrame(r.P, "main_ret")
                 /\ az' = az
  /\ UNCHANGED <<Q, out, stack, ret, transTable, book>>

\* one of the MaxLines lines main reads, or calls a client makes
Dispatch(l, w, a) ==
  /\ nlines < MaxLines
  /\ Call(l, w, a)

\* main reads the next line
ReadLine(l) == Dispatch(l, weak, analyze)

\* a client of the Solver asks about the position of its line again, in any mode
CallAgain(l, w, a) ==
  /\ nlines > 0 => l = line
  /\ Dispatch(l, w, a)

\* main that calls solver.reset() once the score is written
MainAfterSolveReset ==
  /\ pc = "main_ret"
  /\ out' = Append(out, [line |-> line, weak |-> weak, analyze |-> FALSE,
                         scores |-> <<ret>>])
  /\ pc' = "main"
  /\ sv' = NoSolve
  /\ transTable' = TableReset(transTable)
  /\ UNCHANGED <<weak, analyze, nlines, line, P, Q, az, stack, ret, book>>

\* solve returned to main: the line and the score are written
MainAfterSolve ==
  /\ pc = "main_ret"
  /\ out' = Append(out, [line |-> line, weak |-> weak, analyze |-> FALSE,
                         scores |-> <<ret>>])
  /\ pc' = "main"
  /\ sv' = NoSolve
  /\ UNCHANGED <<weak, analyze, nlines, line, P, Q, az, stack, ret, transTable, book>>

------------------------------------------------------------------------------
(* Solver::analyze *)

\* one iteration of the loop over the columns, up to the call of solve
AnalyzeColumn ==
  /\ pc = "analyze"
  /\ az.col < WIDTH
  /\ IF canPlay(az.P, az.col)
     THEN IF isWinningMove(az.P, az.col)
          THEN /\ az' = [az EXCEPT !.scores[az.col] = WinScore(az.P), !.col = az.col + 1]
               /\ UNCHANGED <<pc, sv>>
          ELSE /\ sv' = SolveFrame(playCol(az.P, az.col), "analyze_ret")
               /\ pc' = "solve"
               /\ az' = az
     ELSE /\ az' = [az EXCEPT !.col = az.col + 1]
          /\ UNCHANGED <<pc, sv>>
  /\ UNCHANGED <<weak, analyze, nlines, line, P, Q, out, stack, ret, transTable, book>>

\* scores[col] = solve(P2, weak), the sign not changed
AnalyzeAfterSolveNotNegated ==
  /\ pc = "analyze_ret"
  /\ az' = [az EXCEPT !.scores[az.col] = ret, !.col = az.col + 1]
  /\ pc' = "analyze"
  /\ sv' = NoSolve
  /\ UNCHANGED <<weak, analyze, nlines, line, P, Q, out, stack, ret, transTable, book>>

\* solve returned to analyze: scores[col] = -solve(P2, weak)
AnalyzeAfterSolve ==
  /\ pc = "analyze_ret"
  /\ az' = [az EXCEPT !.scores[az.col] = -ret, !.col = az.col + 1]
  /\ pc' = "analyze"
  /\ sv' = NoSolve
  /\ UNCHANGED <<weak, analyze, nlines, line, P, Q, out, stack, ret, transTable, book>>

\* analyze returns the scores to main, which writes them
AnalyzeReturn ==
  /\ pc = "analyze"
  /\ az.col = WIDTH
  /\ out' = Append(out, [line |-> line, weak |-> weak, analyze |-> TRUE,
                         scores |-> [i \in 1..WIDTH |-> az.scores[i - 1]]])
  /\ pc' = "main"
  /\ az' = NoAnalyze
  /\ UNCHANGED <<weak, analyze, nlines, line, P, Q, sv, stack, ret, transTable, book>>

------------------------------------------------------------------------------
(* Solver::solve *)

\* the return of solve with value v
SolveReturns(v) ==
  /\ ret' = v
  /\ pc' = sv.caller
  /\ sv' = [sv EXCEPT !.st = "done"]

\* a weak window that starts at 0: a loss is not told from a draw
SolveWindowFromZero(pos, w) ==
  IF w THEN [min |-> 0, max |-> 1]
  ELSE [min |-> Half(-(WIDTH * HEIGHT - nbMoves(pos))),
        max |-> Half(WIDTH * HEIGHT + 1 - nbMoves(pos))]

\* the window [min, max] the narrowing loop starts with
SolveWindow(pos, w) ==
  IF w THEN [min |-> -1, max |-> 1]
  ELSE [min |-> Half(-(WIDTH * HEIGHT - nbMoves(pos))),
        max |-> Half(WIDTH * HEIGHT + 1 - nbMoves(pos))]

\* up to the start of the narrowing loop
SolveEnter ==
  /\ pc = "solve"
  /\ sv.st = "enter"
  /\ IF canWinNext(sv.P)
     THEN SolveReturns(WinScore(sv.P))
     ELSE /\ sv' = [sv EXCEPT !.min = SolveWindow(sv.P, weak).min,
                              !.max = SolveWindow(sv.P, weak).max,
                              !.st = "loop"]
          /\ UNCHANGED <<pc, ret>>
  /\ UNCHANGED <<weak, analyze, nlines, line, P, Q, out, az, stack, transTable, book>>

\* a probe at the upper end of the window
ProbeAtMax(min, max) == max

\* the probe of one iteration of the narrowing loop
Probe(min, max) ==
  LET med0 == min + Half(max - min)
  IN  IF med0 <= 0 /\ Half(min) < med0 THEN Half(min)
      ELSE IF med0 >= 0 /\ Half(max) > med0 THEN Half(max)
      ELSE med0

\* the test of the narrowing loop, and the call of negamax or the return
SolveLoop ==
  /\ pc = "solve"
  /\ sv.st = "loop"
  /\ IF sv.min < sv.max
     THEN LET m == Probe(sv.min, sv.max)
          IN  /\ sv' = [sv EXCEPT !.med = m, !.st = "wait"]
              /\ stack' = <<NegamaxFrame(sv.P, m, m + 1)>>
              /\ pc' = "negamax"
              /\ ret' = ret
     ELSE /\ SolveReturns(sv.min)
          /\ stack' = stack
  /\ UNCHANGED <<weak, analyze, nlines, line, P, Q, out, az, transTable, book>>

\* negamax returned r to solve
SolveAfterNegamax ==
  /\ pc = "solve"
  /\ sv.st = "wait"
  /\ sv' = IF ret <= sv.med THEN [sv EXCEPT !.max = ret, !.st = "loop"]
           ELSE [sv EXCEPT !.min = ret, !.st = "loop"]
  /\ UNCHANGED <<weak, analyze, nlines, line, P, Q, out, pc, az, stack, ret, transTable, book>>

------------------------------------------------------------------------------
(* Solver::negamax *)

Top == stack[Len(stack)]

\* the return of the innermost negamax with value v, to negamax or to solve
NegamaxReturns(v) ==
  /\ ret' = v
  /\ stack' = SubSeq(stack, 1, Len(stack) - 1)
  /\ pc' = IF Len(stack) = 1 THEN "solve" ELSE "negamax"

\* the top frame with some fields changed
SetTop(f) == [stack EXCEPT ![Len(stack)] = f]

\* an upper bound stored with the encoding of a lower bound
EncodeUpperAsLower(v) == v + MAX_SCORE - 2 * MIN_SCORE + 2

\* an upper bound stored one too low
EncodeUpperOneLess(v) == v - MIN_SCORE

\* upper bound v as a table value
EncodeUpper(v) == v - MIN_SCORE + 1

\* a lower bound stored with the encoding of an upper bound
EncodeLowerAsUpper(v) == v - MIN_SCORE + 1

\* a lower bound stored one too low
EncodeLowerOneLess(v) == v + MAX_SCORE - 2 * MIN_SCORE + 1

\* lower bound v as a table value
EncodeLower(v) == v + MAX_SCORE - 2 * MIN_SCORE + 2

\* the bound a table value stands for at the probe
DecodeBound(val) ==
  IF val > MAX_SCORE - MIN_SCORE + 1
  THEN [kind |-> "lower", score |-> val + 2 * MIN_SCORE - MAX_SCORE - 2]
  ELSE [kind |-> "upper", score |-> val + MIN_SCORE - 1]

\* from the entry to the filled move sorter
NegamaxEnter ==
  /\ pc = "negamax"
  /\ Top.st = "enter"
  /\ LET pos == Top.P
         possibleMoves == possibleNonLosingMoves(pos)
         min == Half(-(WIDTH * HEIGHT - 2 - nbMoves(pos)))
         alpha1 == IF Top.alpha < min THEN min ELSE Top.alpha
         max == Half(WIDTH * HEIGHT - 1 - nbMoves(pos))
         beta1 == IF Top.beta > max THEN max ELSE Top.beta
         val == TableGet(transTable, key(pos))
         isLower == val > MAX_SCORE - MIN_SCORE + 1
         tmin == val + 2 * MIN_SCORE - MAX_SCORE - 2
         tmax == val + MIN_SCORE - 1
         alpha2 == IF val # 0 /\ isLower /\ alpha1 < tmin THEN tmin ELSE alpha1
         beta2 == IF val # 0 /\ ~isLower /\ beta1 > tmax THEN tmax ELSE beta1
         bval == BookGet(book, pos)
     IN  IF ~(Top.alpha < Top.beta) \/ canWinNext(pos)
         THEN /\ pc' = "abort"
              /\ UNCHANGED <<stack, ret>>
         ELSE IF possibleMoves = {}
         THEN NegamaxReturns(Half(-(WIDTH * HEIGHT - nbMoves(pos))))
         ELSE IF nbMoves(pos) >= WIDTH * HEIGHT - 2
         THEN NegamaxReturns(0)
         ELSE IF Top.alpha < min /\ alpha1 >= Top.beta
         THEN NegamaxReturns(alpha1)
         ELSE IF Top.beta > max /\ alpha1 >= beta1
         THEN NegamaxReturns(beta1)
         ELSE IF val # 0 /\ isLower /\ alpha1 < tmin /\ alpha2 >= beta1
         THEN NegamaxReturns(alpha2)
         ELSE IF val # 0 /\ ~isLower /\ beta1 > tmax /\ alpha1 >= beta2
         THEN NegamaxReturns(beta2)
         ELSE IF bval # 0
         THEN NegamaxReturns(bval + MIN_SCORE - 1)
         ELSE /\ stack' = SetTop([Top EXCEPT
                            !.alpha = alpha2, !.beta = beta2,
                            !.moves = SortedMoves(pos, possibleMoves, WIDTH, << >>),
                            !.st = "loop"])
              /\ UNCHANGED <<pc, ret>>
  /\ UNCHANGED <<weak, analyze, nlines, line, P, Q, out, az, sv, transTable, book>>

\* the test of the loop over the moves: the next move is played and searched,
\* or the upper bound is stored and returned
NegamaxNext ==
  /\ pc = "negamax"
  /\ Top.st = "loop"
  /\ LET n == SorterGetNext(Top.moves)
     IN  IF n.move # {}
         THEN /\ stack' = Append(SetTop([Top EXCEPT !.moves = n.entries, !.st = "wait"]),
                                 NegamaxFrame(play(Top.P, n.move), -Top.beta, -Top.alpha))
              /\ UNCHANGED <<pc, ret, transTable>>
         ELSE /\ transTable' = TablePut(transTable, key(Top.P), EncodeUpper(Top.alpha))
              /\ NegamaxReturns(Top.alpha)
  /\ UNCHANGED <<weak, analyze, nlines, line, P, Q, out, az, sv, book>>

\* the recursive call returned: score = -negamax(P2, -beta, -alpha)
NegamaxAfterChild ==
  /\ pc = "negamax"
  /\ Top.st = "wait"
  /\ LET score == -ret
     IN  IF score >= Top.beta
         THEN /\ transTable' = TablePut(transTable, key(Top.P), EncodeLower(score))
              /\ NegamaxReturns(score)
         ELSE /\ stack' = SetTop([Top EXCEPT
                            !.alpha = IF score > Top.alpha THEN score ELSE Top.alpha,
                            !.st = "loop"])
              /\ UNCHANGED <<pc, ret, transTable>>
  /\ UNCHANGED <<weak, analyze, nlines, line, P, Q, out, az, sv, book>>

------------------------------------------------------------------------------

Next ==
  \/ \E l \in Lines : ReadLine(l)
  \/ MainAfterSolve
  \/ AnalyzeColumn
  \/ AnalyzeAfterSolve
  \/ AnalyzeReturn
  \/ SolveEnter
  \/ SolveLoop
  \/ SolveAfterNegamax
  \/ NegamaxEnter
  \/ NegamaxNext
  \/ NegamaxAfterChild

\* the driver: the options are fixed, the table is kept from line to line
Spec == Init /\ [][Next]_vars

\* a step of the call in progress: every step of the driver but the reading
\* of a line
Run ==
  \/ MainAfterSolve
  \/ AnalyzeColumn
  \/ AnalyzeAfterSolve
  \/ AnalyzeReturn
  \/ SolveEnter
  \/ SolveLoop
  \/ SolveAfterNegamax
  \/ NegamaxEnter
  \/ NegamaxNext
  \/ NegamaxAfterChild

\* a call is in progress: a step of Run is enabled exactly in these states
\* (each of its actions is guarded by its value of pc and assigns in every branch)
Running == pc \notin {"main", "abort"}

\* weak fairness of Run, WF_vars(Run), with ENABLED <<Run>>_vars written as
\* Running: a call in progress is not left standing for ever
RunFairness == []<>(~Running) \/ []<><<Run>>_vars

\* the driver as a sequential program: a call in progress keeps running
SpecLive == Init /\ [][Next]_vars /\ RunFairness

NextApi ==
  \/ \E l \in Lines, w \in BOOLEAN, a \in BOOLEAN : CallAgain(l, w, a)
  \/ MainAfterSolve
  \/ AnalyzeColumn
  \/ AnalyzeAfterSolve
  \/ AnalyzeReturn
  \/ SolveEnter
  \/ SolveLoop
  \/ SolveAfterNegamax
  \/ NegamaxEnter
  \/ NegamaxNext
  \/ NegamaxAfterChild

\* a client that calls solve and analyze on one Solver, twice on a position
SpecApi == Init /\ [][NextApi]_vars

------------------------------------------------------------------------------
(* Solvers with tables of several sizes.  A client solves a position on    *)
(* the new solver, makes one more call of any kind on any line, and solves *)
(* the first position again.                                               *)

\* the values of Solver::TABLE_SIZE: tables of 1, 5 and 17 slots
LogSizes == {0, 2, TABLE_SIZE}

\* Solver::transTable when TABLE_SIZE is log_size
SolverTableOf(log_size) ==
  NewTable(uint_t(WIDTH * (HEIGHT + 1) - log_size), log_size)

InitSizes ==
  /\ weak = FALSE /\ analyze = FALSE
  /\ nlines = 0 /\ line = << >>
  /\ P = EmptyPosition /\ Q = EmptyPosition
  /\ out = << >>
  /\ pc = "main"
  /\ az = NoAnalyze /\ sv = NoSolve
  /\ stack = << >>
  /\ ret = 0
  /\ transTable \in {SolverTableOf(ls) : ls \in LogSizes}
  /\ book = EmptyBook

\* the strong solve of a line on the new solver
FirstSolve(l) == nlines = 0 /\ Call(l, FALSE, FALSE)

\* any call on any line
OtherCall(l, w, a) == nlines = 1 /\ Len(out) = 1 /\ Call(l, w, a)

\* the strong solve of the first line again
SolveAgain == nlines = 2 /\ Call(out[1].line, FALSE, FALSE)

NextSizes ==
  \/ \E l \in Lines : FirstSolve(l)
  \/ \E l \in Lines, w \in BOOLEAN, a \in BOOLEAN : OtherCall(l, w, a)
  \/ SolveAgain
  \/ MainAfterSolve
  \/ AnalyzeColumn
  \/ AnalyzeAfterSolve
  \/ AnalyzeReturn
  \/ SolveEnter
  \/ SolveLoop
  \/ SolveAfterNegamax
  \/ NegamaxEnter
  \/ NegamaxNext
  \/ NegamaxAfterChild

SpecSizes == InitSizes /\ [][NextSizes]_vars

------------------------------------------------------------------------------
(* The Position class on its own: any sequence of calls of play(seq),      *)
(* playCol and play(move) that respects their preconditions                *)

\* most characters of a sequence given to play(seq)
MaxSeq == 2

Seqs == UNION {[1..n -> Chars] : n \in 1..MaxSeq}

\* most stones on the board before a call
MaxPosMoves == 8

PosPlaySeq(seq) ==
  /\ nbMoves(P) < MaxPosMoves
  /\ P' = playSeq(P, seq).P
  /\ UNCHANGED <<weak, analyze, nlines, line, Q, out, pc, az, sv, stack, ret,
                 transTable, book>>

\* playCol on a playable column
PosPlayCol(col) ==
  /\ nbMoves(P) < MaxPosMoves
  /\ canPlay(P, col)
  /\ P' = playCol(P, col)
  /\ UNCHANGED <<weak, analyze, nlines, line, Q, out, pc, az, sv, stack, ret,
                 transTable, book>>

\* play(move) with one of the moves of possible()
PosPlayMove(b) ==
  /\ nbMoves(P) < MaxPosMoves
  /\ P' = play(P, {b})
  /\ UNCHANGED <<weak, analyze, nlines, line, Q, out, pc, az, sv, stack, ret,
                 transTable, book>>

InitPosition == weak = FALSE /\ analyze = FALSE /\ InitSolver

NextPosition ==
  \/ \E seq \in Seqs : PosPlaySeq(seq)
  \/ \E col \in 0..(WIDTH - 1) : PosPlayCol(col)
  \/ \E b \in possible(P) : PosPlayMove(b)

SpecPosition == InitPosition /\ [][NextPosition]_vars

------------------------------------------------------------------------------
(* Two Position objects, each built from the empty position by legal moves *)

\* most moves played on each of the two positions
MaxPairMoves == 4

\* play(seq) of the one character ch on pos, when the move is accepted
Accepted(pos, ch) == playSeq(pos, <<ch>>).ret = 1

PairPlayP(ch) ==
  /\ nbMoves(P) < MaxPairMoves
  /\ Accepted(P, ch)
  /\ P' = playSeq(P, <<ch>>).P
  /\ UNCHANGED <<weak, analyze, nlines, line, Q, out, pc, az, sv, stack, ret,
                 transTable, book>>

PairPlayQ(ch) ==
  /\ nbMoves(Q) < MaxPairMoves
  /\ Accepted(Q, ch)
  /\ Q' = playSeq(Q, <<ch>>).P
  /\ UNCHANGED <<weak, analyze, nlines, line, P, out, pc, az, sv, stack, ret,
                 transTable, book>>

NextPair ==
  \/ \E ch \in Chars : PairPlayP(ch)
  \/ \E ch \in Chars : PairPlayQ(ch)

SpecPair == InitPosition /\ [][NextPair]_vars

------------------------------------------------------------------------------
(* Calls of play(seq) on one Position object, each with its argument, the  *)
(* position before the call and the value returned                         *)

\* most stones on the board before a call of play(seq)
MaxPlayMoves == 6

\* the arguments of play(seq), the empty string included
PlaySeqs == UNION {[1..n -> Chars] : n \in 0..MaxSeq}

\* ret = P.play(seq); Q keeps the position before the call
PlaySeqCall(seq) ==
  /\ nbMoves(P) < MaxPlayMoves
  /\ Q' = P
  /\ line' = seq
  /\ P' = playSeq(P, seq).P
  /\ ret' = playSeq(P, seq).ret
  /\ pc' = "play_ret"
  /\ UNCHANGED <<weak, analyze, nlines, out, az, sv, stack, transTable, book>>

NextPlaySeq == \E seq \in PlaySeqs : PlaySeqCall(seq)

SpecPlaySeq == InitPosition /\ [][NextPlaySeq]_vars

------------------------------------------------------------------------------
(* A TranspositionTable<uint8_t, key_t, uint8_t, log_size> on its own: any *)
(* sequence of calls of reset, put and get.  out keeps the calls of put    *)
(* since the last reset, stack the argument of the last get.               *)

\* log_size of the table
TableLogSize == 2

\* most calls of put between two calls of reset
MaxPuts == 3

\* keys below size * 2^kbits, chosen to share slots and partial keys
TableKeys(T) ==
  {0, 1, T.size, T.size + 1, 2^T.kbits, 2^T.kbits + T.size,
   T.size * (2^T.kbits - 1)}

\* values of value_t given to put
TableValues == {0, 1, 200}

\* the table after its constructor
InitTable ==
  /\ weak = FALSE /\ analyze = FALSE
  /\ nlines = 0 /\ line = << >>
  /\ P = EmptyPosition /\ Q = EmptyPosition
  /\ out = << >>
  /\ pc = "table"
  /\ az = NoAnalyze /\ sv = NoSolve
  /\ stack = << >>
  /\ ret = 0
  /\ transTable = NewTable(uint_t(8), TableLogSize)
  /\ book = EmptyBook

TableResetCall ==
  /\ transTable' = TableReset(transTable)
  /\ out' = << >>
  /\ pc' = "table"
  /\ UNCHANGED <<weak, analyze, nlines, line, P, Q, az, sv, stack, ret, book>>

TablePutCall(k, v) ==
  /\ Len(out) < MaxPuts
  /\ transTable' = TablePut(transTable, k, v)
  /\ out' = Append(out, [key |-> k, value |-> v])
  /\ pc' = "table"
  /\ UNCHANGED <<weak, analyze, nlines, line, P, Q, az, sv, stack, ret, book>>

\* ret = get(k)
TableGetCall(k) ==
  /\ ret' = TableGet(transTable, k)
  /\ stack' = <<[key |-> k]>>
  /\ pc' = "get_ret"
  /\ UNCHANGED <<weak, analyze, nlines, line, P, Q, out, az, sv, transTable, book>>

NextTable ==
  \/ TableResetCall
  \/ \E k \in TableKeys(transTable), v \in TableValues : TablePutCall(k, v)
  \/ \E k \in TableKeys(transTable) : TableGetCall(k)

SpecTable == InitTable /\ [][NextTable]_vars

------------------------------------------------------------------------------
(* The opening book from the generator to the solver.  The generator reads *)
(* scored positions into its table (transTable) and saves the book to a    *)
(* file (out); the file may be damaged; OpeningBook::load reads it into    *)
(* book and get is called on positions (sv is the frame of get, ret its    *)
(* value; stack keeps the entries the generator stored).                   *)

\* generate_opening_book: BOOK_SIZE, DEPTH
BOOK_SIZE == 23

DEPTH == 14

\* int(x * LOG_3), LOG_3 = 1.58496250072
TimesLOG_3(x) == (x * 158496) \div 100000

\* the generator's table
GeneratorTable ==
  BigTable(uint_t(TimesLOG_3(DEPTH + WIDTH - 1) + 1 - BOOK_SIZE), BOOK_SIZE)

\* most lines the generator reads
MaxBookLines == 2

\* most characters of the position of a line, and of a position get is asked
MaxBookMoves == 1

\* the characters of these positions: '0', '1', '2' and the last column
BookChars == {48, 49, 50, 48 + WIDTH}

BookSeqs == UNION {[1..n -> BookChars] : n \in 0..MaxBookMoves}

\* the scores of the lines: the least, the greatest, and one that is too great
BookScores == {MIN_SCORE, MAX_SCORE, MAX_SCORE + 1}

InitBook ==
  /\ weak = FALSE /\ analyze = FALSE
  /\ nlines = 0 /\ line = << >>
  /\ P = EmptyPosition /\ Q = EmptyPosition
  /\ out = NoFile
  /\ pc = "generator"
  /\ az = NoAnalyze /\ sv = NoSolve
  /\ stack = << >>
  /\ ret = 0
  /\ transTable = GeneratorTable
  /\ book = EmptyBook

\* one line "pos score" of the input of the generator
GenLine(pos, score) ==
  /\ pc = "generator"
  /\ nlines < MaxBookLines
  /\ nlines' = nlines + 1
  /\ line' = pos
  /\ LET r == playSeq(EmptyPosition, pos)
     IN  IF r.ret # Len(pos) \/ score < MIN_SCORE \/ score > MAX_SCORE
         THEN UNCHANGED <<transTable, stack>>
         ELSE /\ transTable' = BigTablePut(transTable, key3(r.P), score - MIN_SCORE + 1)
              /\ stack' = Append(stack, [P |-> r.P, value |-> score - MIN_SCORE + 1])
  /\ UNCHANGED <<weak, analyze, P, Q, out, pc, az, sv, ret, book>>

\* the end of the input: the book is saved
GenSave ==
  /\ pc = "generator"
  /\ out' = BookSave([depth |-> DEPTH, T |-> transTable])
  /\ pc' = "saved"
  /\ UNCHANGED <<weak, analyze, nlines, line, P, Q, az, sv, stack, ret, transTable, book>>

\* chars that load rejects, or takes without another layout of the data, as
\* byte i of the header
OtherBytes(i) ==
  CASE i = 1 -> {0, WIDTH + 1}
    [] i = 2 -> {HEIGHT - 1}
    [] i = 3 -> {-1, 0, WIDTH * HEIGHT + 1}
    [] i = 4 -> {-1, 0, 3, 8, 9}
    [] i = 5 -> {0, 2}
    [] i = 6 -> {-1, 20, 28, 41}

\* the file F removed, cut or with one byte of its header changed
Damaged(F) ==
  {NoFile}
  \cup {[F EXCEPT !.header = SubSeq(F.header, 1, n), !.keyLen = 0, !.valueLen = 0] :
          n \in 0..5}
  \cup {[F EXCEPT !.header[i] = b] : <<i, b>> \in UNION {{i} \X OtherBytes(i) : i \in 1..6}}
  \cup {[F EXCEPT !.keyLen = n, !.valueLen = 0] : n \in {0, F.keyLen - 1}}
  \cup {[F EXCEPT !.valueLen = n] : n \in {0, F.valueLen - 1}}

\* the file as the generator saved it
Intact(F) == F = BookSave([depth |-> DEPTH, T |-> transTable])

FileDamage(F) ==
  /\ pc \in {"saved", "loaded", "got"}
  /\ Intact(out)
  /\ out' = F
  /\ pc' = "saved"
  /\ UNCHANGED <<weak, analyze, nlines, line, P, Q, az, sv, stack, ret, transTable, book>>

\* Solver::loadBook
LoadBook ==
  /\ pc \in {"saved", "loaded", "got"}
  /\ book.T # DeletedTable
  /\ book' = BookLoad(book, out)
  /\ pc' = "loaded"
  /\ UNCHANGED <<weak, analyze, nlines, line, P, Q, out, az, sv, stack, ret, transTable>>

\* ret = book.get(pos)
BookGetCall(pos) ==
  /\ pc \in {"loaded", "got"}
  /\ ret' = BookGet(book, pos)
  /\ sv' = [P |-> pos, readT |-> ~(nbMoves(pos) > book.depth)]
  /\ pc' = "got"
  /\ UNCHANGED <<weak, analyze, nlines, line, P, Q, out, az, stack, transTable, book>>

NextBook ==
  \/ \E pos \in BookSeqs, score \in BookScores : GenLine(pos, score)
  \/ GenSave
  \/ Intact(out) /\ \E F \in Damaged(out) : FileDamage(F)
  \/ LoadBook
  \/ \E seq \in BookSeqs :
       playSeq(EmptyPosition, seq).ret = Len(seq)
       /\ BookGetCall(playSeq(EmptyPosition, seq).P)

SpecBook == InitBook /\ [][NextBook]_vars

------------------------------------------------------------------------------
(* The constructor of Solver for a board of any width: ret is              *)
(* Position::WIDTH of the build, stack the entries of columnOrder written  *)
(* so far (stack[i + 1] is columnOrder[i]), pc the position in the loop.   *)

\* widest board built
MaxWidth == 14

InitOrder ==
  /\ weak = FALSE /\ analyze = FALSE
  /\ nlines = 0 /\ line = << >>
  /\ P = EmptyPosition /\ Q = EmptyPosition
  /\ out = << >>
  /\ pc = "ctor"
  /\ az = NoAnalyze /\ sv = NoSolve
  /\ stack = << >>
  /\ ret \in 1..MaxWidth
  /\ transTable = SolverTable
  /\ book = EmptyBook

\* one turn of the loop: i is Len(stack)
CtorStep ==
  /\ pc = "ctor"
  /\ Len(stack) < ret
  /\ stack' = Append(stack, columnOrderEntry(ret, Len(stack)))
  /\ UNCHANGED <<weak, analyze, nlines, line, P, Q, out, pc, az, sv, ret,
                 transTable, book>>

\* the loop ends
CtorReturn ==
  /\ pc = "ctor"
  /\ Len(stack) = ret
  /\ pc' = "ctor_ret"
  /\ UNCHANGED <<weak, analyze, nlines, line, P, Q, out, az, sv, stack, ret,
                 transTable, book>>

NextOrder == CtorStep \/ CtorReturn

SpecOrder == InitOrder /\ [][NextOrder]_vars

------------------------------------------------------------------------------
(* The Position class on a board of any size b = [WIDTH, HEIGHT], for the  *)
(* board of the source's own build.  These are the functions of the        *)
(* Position section with the size as a parameter; the bitboards of that    *)
(* build have 49 bits, so sums and products are computed on the sets of    *)
(* bits, bit by bit, rather than through BitsToNat.  A board b carries     *)
(* its static bitmaps bottom_mask and board_mask, as the class does.       *)

RECURSIVE PlusFrom(_, _, _, _)
\* the bits from bit i on of a + b, with the carry that enters bit i
PlusFrom(A, B, i, carry) ==
  IF i >= WordBits THEN {}
  ELSE LET n == (IF i \in A THEN 1 ELSE 0) + (IF i \in B THEN 1 ELSE 0) + carry
       IN  (IF n % 2 = 1 THEN {i} ELSE {})
           \cup (IF n >= 2 THEN PlusFrom(A, B, i + 1, 1)
                           ELSE PlusFrom(A, B, i + 1, 0))

\* a + b on position_t
PlusBits(A, B) == PlusFrom(A, B, 0, 0)

RECURSIVE TimesOnes(_, _)
\* x * ((1 << n) - 1) on position_t: the sum of x << r for r < n
TimesOnes(A, n) ==
  IF n = 0 THEN {} ELSE PlusBits(TimesOnes(A, n - 1), Shl(A, n - 1))

\* the class for a width and a height: its constants and static bitmaps
Board(width, height) ==
  [WIDTH |-> width, HEIGHT |-> height,
   bottom_mask |-> bottom(width, height),
   board_mask |-> TimesOnes(bottom(width, height), height)]

\* the board of the source: Position::WIDTH = 7, Position::HEIGHT = 6
SourceBoard == Board(7, 6)

top_mask_colOn(b, col) == Shl({0}, (b.HEIGHT - 1) + col * (b.HEIGHT + 1))

bottom_mask_colOn(b, col) == Shl({0}, col * (b.HEIGHT + 1))

column_maskOn(b, col) == Shl(NatToBits(2^b.HEIGHT - 1), col * (b.HEIGHT + 1))

\* compute_winning_position where two stones in a column are enough
compute_winning_positionOfTwo(b, position, mask) ==
  (Shl(position, 1) \cap Shl(position, 2)) \cap Xor(b.board_mask, mask)

compute_winning_positionOn(b, position, mask) ==
  LET H1 == b.HEIGHT + 1
      H0 == b.HEIGHT
      H2 == b.HEIGHT + 2
      \* vertical
      r0 == Shl(position, 1) \cap Shl(position, 2) \cap Shl(position, 3)
      \* one line direction with shift amount d
      dir(d) ==
        LET p == Shl(position, d) \cap Shl(position, 2 * d)
            q == Shr(position, d) \cap Shr(position, 2 * d)
        IN  (p \cap Shl(position, 3 * d)) \cup (p \cap Shr(position, d))
            \cup (q \cap Shl(position, d)) \cup (q \cap Shr(position, 3 * d))
      r == r0 \cup dir(H1) \cup dir(H0) \cup dir(H2)
  IN  r \cap Xor(b.board_mask, mask)

winning_positionOn(b, pos) ==
  compute_winning_positionOn(b, pos.current_position, pos.mask)

possibleOn(b, pos) == PlusBits(pos.mask, b.bottom_mask) \cap b.board_mask

canWinNextOn(b, pos) == (winning_positionOn(b, pos) \cap possibleOn(b, pos)) # {}

canPlayOn(b, pos, col) == (pos.mask \cap top_mask_colOn(b, col)) = {}

isWinningMoveOn(b, pos, col) ==
  (winning_positionOn(b, pos) \cap possibleOn(b, pos) \cap column_maskOn(b, col)) # {}

playColOn(b, pos, col) ==
  play(pos, PlusBits(pos.mask, bottom_mask_colOn(b, col)) \cap column_maskOn(b, col))

RECURSIVE playSeqFromOn(_, _, _, _)
\* Position::play(seq) from character i (1-based) on: [P, ret]
playSeqFromOn(b, pos, seq, i) ==
  IF i > Len(seq) THEN [P |-> pos, ret |-> Len(seq)]
  ELSE LET col == seq[i] - 49   \* seq[i] - '1'
       IN  IF col < 0 \/ col >= b.WIDTH \/ ~canPlayOn(b, pos, col)
              \/ isWinningMoveOn(b, pos, col)
           THEN [P |-> pos, ret |-> i - 1]
           ELSE playSeqFromOn(b, playColOn(b, pos, col), seq, i + 1)

playSeqOn(b, pos, seq) == playSeqFromOn(b, pos, seq, 1)

\* min and max of a strong solve before the narrowing loop
SolveWindowOn(b, pos) ==
  [min |-> Half(-(b.WIDTH * b.HEIGHT - nbMoves(pos))),
   max |-> Half(b.WIDTH * b.HEIGHT + 1 - nbMoves(pos))]

------------------------------------------------------------------------------
(* The driver on the board of the source, for one line of the columns 4    *)
(* and 5, up to the first test of solve: line is the line read, P the      *)
(* position play(line) built, ret the value play returned and then the     *)
(* value solve returned at once, sv.min and sv.max the window solve set    *)
(* before its loop.  The search itself is out of reach on this board.      *)

\* longest line read
MaxSourceLine == 7

\* the characters '4' and '5'
SourceChars == {52, 53}

SourceLines == UNION {[1..n -> SourceChars] : n \in 0..MaxSourceLine}

InitSource ==
  /\ weak = FALSE /\ analyze = FALSE
  /\ nlines = 0 /\ line = << >>
  /\ P = EmptyPosition /\ Q = EmptyPosition
  /\ out = << >>
  /\ pc = "main"
  /\ az = NoAnalyze /\ sv = NoSolve
  /\ stack = << >>
  /\ ret = 0
  /\ transTable = SolverTable
  /\ book = EmptyBook

\* Position P; P.play(line)
SourcePlay(l) ==
  /\ pc = "main"
  /\ nlines = 0
  /\ nlines' = 1
  /\ line' = l
  /\ LET r == playSeqOn(SourceBoard, EmptyPosition, l)
     IN  P' = r.P /\ ret' = r.ret
  /\ pc' = "play_ret"
  /\ UNCHANGED <<weak, analyze, Q, out, az, sv, stack, transTable, book>>

\* play(line) != line.size(): the message goes to the standard error
SourceInvalid ==
  /\ pc = "play_ret"
  /\ ret # Len(line)
  /\ pc' = "main"
  /\ UNCHANGED <<weak, analyze, nlines, line, P, Q, out, az, sv, stack, ret,
                 transTable, book>>

\* solve(P) returns at once on a win in one move
SourceSolveWin ==
  /\ pc = "play_ret"
  /\ ret = Len(line)
  /\ canWinNextOn(SourceBoard, P)
  /\ ret' = Half(SourceBoard.WIDTH * SourceBoard.HEIGHT + 1 - nbMoves(P))
  /\ pc' = "solve_ret"
  /\ UNCHANGED <<weak, analyze, nlines, line, P, Q, out, az, sv, stack,
                 transTable, book>>

\* solve(P) sets min and max and enters its loop
SourceSolveSearch ==
  /\ pc = "play_ret"
  /\ ret = Len(line)
  /\ ~canWinNextOn(SourceBoard, P)
  /\ sv' = [sv EXCEPT !.P = P,
                      !.min = SolveWindowOn(SourceBoard, P).min,
                      !.max = SolveWindowOn(SourceBoard, P).max,
                      !.st = "loop", !.caller = "main"]
  /\ pc' = "solve_loop"
  /\ UNCHANGED <<weak, analyze, nlines, line, P, Q, out, az, stack, ret,
                 transTable, book>>

NextSource ==
  \/ \E l \in SourceLines : SourcePlay(l)
  \/ SourceInvalid
  \/ SourceSolveWin
  \/ SourceSolveSearch

SpecSource == InitSource /\ [][NextSource]_vars

------------------------------------------------------------------------------
(* main on one line of at most MaxShallow moves: the searches from the     *)
(* empty board and from the positions next to it, where the scores and     *)
(* the windows of negamax are the widest.                                  *)

\* most characters of the line
MaxShallow == 1

\* the characters of the columns: '1' .. '0' + WIDTH
ShallowChars == 49..(48 + WIDTH)

ShallowLines == UNION {[1..n -> ShallowChars] : n \in 0..MaxShallow}

\* main without the option -a, before its first line
InitShallow ==
  /\ weak \in BOOLEAN
  /\ analyze = FALSE
  /\ InitSolver

\* main reads its line
ShallowLine(l) == nlines = 0 /\ Call(l, weak, analyze)

NextShallow ==
  \/ \E l \in ShallowLines : ShallowLine(l)
  \/ MainAfterSolve
  \/ SolveEnter
  \/ SolveLoop
  \/ SolveAfterNegamax
  \/ NegamaxEnter
  \/ NegamaxNext
  \/ NegamaxAfterChild

SpecShallow == InitShallow /\ [][NextShallow]_vars

------------------------------------------------------------------------------
(* A client of one Solver that calls solve or analyze, strong or weak, on  *)
(* MaxLines lines of its choice, and may call reset between two calls.     *)

\* most characters of a line of the client after the opening
MaxClientTail == 1

ClientLines ==
  {Opening \o t : t \in UNION {[1..n -> Chars] : n \in 0..MaxClientTail}}

InitClient == weak = FALSE /\ analyze = FALSE /\ InitSolver

\* a call of solve or analyze on the position of a line
ClientCall(l, w, a) == Dispatch(l, w, a)

\* Solver::reset between two calls
ClientReset ==
  /\ pc = "main"
  /\ nlines > 0
  /\ transTable # TableReset(transTable)
  /\ transTable' = TableReset(transTable)
  /\ UNCHANGED <<weak, analyze, nlines, line, P, Q, out, pc, az, sv, stack, ret, book>>

NextClient ==
  \/ \E l \in ClientLines, w \in BOOLEAN, a \in BOOLEAN : ClientCall(l, w, a)
  \/ ClientReset
  \/ MainAfterSolve
  \/ AnalyzeColumn
  \/ AnalyzeAfterSolve
  \/ AnalyzeReturn
  \/ SolveEnter
  \/ SolveLoop
  \/ SolveAfterNegamax
  \/ NegamaxEnter
  \/ NegamaxNext
  \/ NegamaxAfterChild

SpecClient == InitClient /\ [][NextClient]_vars

------------------------------------------------------------------------------
(* A MoveSorter on its own.  It is filled either by calls of add with any  *)
(* moves and scores, or by the loop of negamax over the columns for a      *)
(* position P, and then emptied by calls of getNext: stack is the array    *)
(* entries[0..size), out the pairs given to add in the order of the calls, *)
(* line the moves getNext returned, ret the number of calls of getNext on  *)
(* the empty container, pc "sorter_add" or "sorter_fill" for the two ways. *)

\* the scores given to add
SorterScores == 0..2

\* most moves of the position whose moves negamax sorts
MaxSorterMoves == 4

\* most calls of getNext on the empty container
MaxEmptyGets == 2

SorterSeqs == UNION {[1..n -> ShallowChars] : n \in 0..MaxSorterMoves}

InitSorter ==
  /\ weak = FALSE /\ analyze = FALSE
  /\ nlines = 0 /\ line = << >>
  /\ P = EmptyPosition /\ Q = EmptyPosition
  /\ out = << >>
  /\ pc = "sorter_add"
  /\ az = NoAnalyze /\ sv = NoSolve
  /\ stack = << >>
  /\ ret = 0
  /\ transTable = SolverTable
  /\ book = EmptyBook

\* moves.add(move, score), before any getNext; the move is one cell of a
\* column that no earlier move is in
SorterAddCall(c, score) ==
  /\ pc = "sorter_add"
  /\ Len(line) = 0
  /\ Len(out) < WIDTH
  /\ \A i \in 1..Len(out) : out[i].move # bottom_mask_col(c)
  /\ stack' = SorterAdd(stack, bottom_mask_col(c), score)
  /\ out' = Append(out, [move |-> bottom_mask_col(c), score |-> score])
  /\ UNCHANGED <<weak, analyze, nlines, line, P, Q, pc, az, sv, ret, transTable, book>>

\* the loop of negamax that fills its new sorter for the position of seq
SorterFill(seq) ==
  /\ pc = "sorter_add"
  /\ Len(out) = 0 /\ Len(line) = 0
  /\ LET r == playSeq(EmptyPosition, seq)
     IN  /\ r.ret = Len(seq)
         /\ ~canWinNext(r.P)
         /\ P' = r.P
         /\ stack' = SortedMoves(r.P, possibleNonLosingMoves(r.P), WIDTH, << >>)
  /\ pc' = "sorter_fill"
  /\ UNCHANGED <<weak, analyze, nlines, line, Q, out, az, sv, ret, transTable, book>>

\* moves.getNext()
SorterGetNextCall ==
  /\ pc \in {"sorter_add", "sorter_fill"}
  /\ Len(stack) = 0 => ret < MaxEmptyGets
  /\ line' = Append(line, SorterGetNext(stack).move)
  /\ stack' = SorterGetNext(stack).entries
  /\ ret' = IF Len(stack) = 0 THEN ret + 1 ELSE ret
  /\ UNCHANGED <<weak, analyze, nlines, P, Q, out, pc, az, sv, transTable, book>>

NextSorter ==
  \/ \E c \in 0..(WIDTH - 1), score \in SorterScores : SorterAddCall(c, score)
  \/ \E seq \in SorterSeqs : SorterFill(seq)
  \/ SorterGetNextCall

SpecSorter == InitSorter /\ [][NextSorter]_vars

------------------------------------------------------------------------------
(* The tables of an opening book on the heap.                               *)
(* book.T is the pointer T: 0, or the number of a table; stack[t] counts   *)
(* the times table t was deleted; nlines counts the calls of load and line  *)
(* names the place where the last one returned; pc is "book" while the      *)
(* book lives, "destroyed" after its destructor, "crashed" when a delete of *)
(* a deleted table stopped the program.                                     *)

\* most calls of load on one book
MaxLoads == 3

\* the depths read from a file
LoadDepths == {0, 2}

\* the returns of load before the table is allocated
EarlyReturns ==
  {"open", "width", "height", "depth", "key_bytes", "value_bytes", "log_size"}

\* delete T: nothing for the null pointer
DeleteTable(heap, t) == IF t = 0 THEN heap ELSE [heap EXCEPT ![t] = @ + 1]

\* T points to a table that was deleted
Dangling == book.T # 0 /\ stack[book.T] > 0

\* OpeningBook(width, height): T = 0; OpeningBook(width, height, depth, T):
\* the table of the caller
InitAlloc ==
  /\ weak = FALSE /\ analyze = FALSE
  /\ nlines = 0 /\ line = ""
  /\ P = EmptyPosition /\ Q = EmptyPosition
  /\ out = << >>
  /\ pc = "book"
  /\ az = NoAnalyze /\ sv = NoSolve
  /\ ret = 0
  /\ transTable = SolverTable
  /\ \/ book = [depth |-> -1, T |-> 0] /\ stack = << >>
     \/ \E d \in LoadDepths : book = [depth |-> d, T |-> 1] /\ stack = <<0>>

\* the two statements all calls of load start with, and then the rest of
\* the call, unless the delete of a deleted table stopped the program
LoadBegins(rest) ==
  /\ pc = "book"
  /\ nlines < MaxLoads
  /\ nlines' = nlines + 1
  /\ \/ rest /\ pc' = pc
     \/ /\ Dangling
        /\ pc' = "crashed"
        /\ stack' = DeleteTable(stack, book.T)
        /\ book' = [book EXCEPT !.depth = -1]
        /\ line' = "delete"
  /\ UNCHANGED <<weak, analyze, P, Q, out, az, sv, ret, transTable>>

\* load returns before the allocation: T keeps the deleted table
LoadReturnsEarly(step) ==
  LoadBegins(/\ stack' = DeleteTable(stack, book.T)
             /\ book' = [book EXCEPT !.depth = -1]
             /\ line' = step)

\* initTranspositionTable returns 0
LoadInitFails ==
  LoadBegins(/\ stack' = DeleteTable(stack, book.T)
             /\ book' = [depth |-> -1, T |-> 0]
             /\ line' = "init")

\* the table is allocated and the read of the keys or the values fails
LoadDataFails ==
  LoadBegins(/\ stack' = Append(DeleteTable(stack, book.T), 0)
             /\ book' = [depth |-> -1, T |-> Len(stack) + 1]
             /\ line' = "data")

\* the load succeeds
LoadSucceeds(d) ==
  LoadBegins(/\ stack' = Append(DeleteTable(stack, book.T), 0)
             /\ book' = [depth |-> d, T |-> Len(stack) + 1]
             /\ line' = "done")

\* ~OpeningBook
DestroyBook ==
  /\ pc = "book"
  /\ stack' = DeleteTable(stack, book.T)
  /\ pc' = IF Dangling THEN "crashed" ELSE "destroyed"
  /\ UNCHANGED <<weak, analyze, nlines, line, P, Q, out, az, sv, ret,
                 transTable, book>>

\* ~OpeningBook on a deleted table, when the second delete goes unnoticed
DestroyBookUnnoticed ==
  /\ pc = "book"
  /\ Dangling
  /\ stack' = DeleteTable(stack, book.T)
  /\ pc' = "destroyed"
  /\ UNCHANGED <<weak, analyze, nlines, line, P, Q, out, az, sv, ret,
                 transTable, book>>

NextAlloc ==
  \/ \E step \in EarlyReturns : LoadReturnsEarly(step)
  \/ LoadInitFails
  \/ LoadDataFails
  \/ \E d \in LoadDepths : LoadSucceeds(d)
  \/ DestroyBook
  \/ DestroyBookUnnoticed

SpecAlloc == InitAlloc /\ [][NextAlloc]_vars

------------------------------------------------------------------------------
(* The game of Connect 4 on the board, stated on cells rather than on the  *)
(* bitboard arithmetic: the reference the solver's results are compared to *)

\* bit of the cell of column c (from the left) and row r (from the bottom)
Cell(c, r) == c * (HEIGHT + 1) + r

Columns == 0..(WIDTH - 1)

Rows == 0..(HEIGHT - 1)

\* the four-cell lines of the board: horizontal, vertical and both diagonals
Lines4 ==
  {{Cell(c + i * d[1], r + i * d[2]) : i \in 0..3} :
     <<c, r, d>> \in {t \in Columns \X Rows \X {<<1, 0>>, <<0, 1>>, <<1, 1>>, <<1, -1>>} :
                        /\ t[1] + 3 * t[3][1] \in Columns
                        /\ t[2] + 3 * t[3][2] \in Rows}}

\* four aligned stones among the stones S
Aligned(S) == \E L \in Lines4 : L \subseteq S

\* number of stones in column c
ColumnHeight(pos, c) == Cardinality({r \in Rows : Cell(c, r) \in pos.mask})

Playable(pos) == {c \in Columns : ColumnHeight(pos, c) < HEIGHT}

\* the stones of the player who is not to move
Opponent(pos) == pos.mask \ pos.current_position

\* the side to move completes an alignment by playing column c
WinsBy(pos, c) ==
  Aligned(pos.current_position \cup {Cell(c, ColumnHeight(pos, c))})

\* the position after the side to move plays column c
After(pos, c) ==
  [current_position |-> Opponent(pos),
   mask |-> pos.mask \cup {Cell(c, ColumnHeight(pos, c))},
   moves |-> pos.moves + 1]

CanWinNow(pos) == \E c \in Playable(pos) : WinsBy(pos, c)

HasAlignment(pos) == Aligned(pos.current_position) \/ Aligned(Opponent(pos))

Max(S) == CHOOSE x \in S : \A y \in S : y <= x

Min(S) == CHOOSE x \in S : \A y \in S : x <= y

Sign(x) == IF x > 0 THEN 1 ELSE IF x < 0 THEN -1 ELSE 0

RECURSIVE GameValue(_)
\* the value V of a position: the score of an immediate win, 0 on a full
\* board, and else the best of the negated values of the positions after a move
GameValue(pos) ==
  IF CanWinNow(pos) THEN Half(WIDTH * HEIGHT + 1 - pos.moves)
  ELSE IF Playable(pos) = {} THEN 0
  ELSE Max({-GameValue(After(pos, c)) : c \in Playable(pos)})

RECURSIVE Outcome(_)
\* the result of optimal play for the side to move, and its length in plies:
\* the winner wins as soon as possible and the loser loses as late as possible
Outcome(pos) ==
  IF CanWinNow(pos) THEN [res |-> "win", plies |-> 1]
  ELSE IF Playable(pos) = {} THEN [res |-> "draw", plies |-> 0]
  ELSE LET next == {Outcome(After(pos, c)) : c \in Playable(pos)}
           won == {o \in next : o.res = "loss"}
           lost == {o \in next : o.res = "win"}
       IN  IF won # {} THEN [res |-> "win", plies |-> 1 + Min({o.plies : o \in won})]
           ELSE IF next # lost THEN [res |-> "draw", plies |-> 0]
           ELSE [res |-> "loss", plies |-> 1 + Max({o.plies : o \in lost})]

\* solve has returned ret for the position sv.P
SolveReturned == pc \in {"main_ret", "analyze_ret"}

\* the number of empty cells of a position
EmptyCells(pos) == WIDTH * HEIGHT - pos.moves

------------------------------------------------------------------------------
(* C1: a strong solve of a position returns its game value V, whatever the *)
(* earlier calls left in the transposition table.                          *)
C1_StrongSolveIsGameValue ==
  (SolveReturned /\ ~weak) => ret = GameValue(sv.P)

\* a strong solve that searched (no immediate win) for a lost position, on a
\* solver whose table holds the entries of an earlier solve
C1_Witness ==
  /\ SolveReturned /\ ~weak /\ ~CanWinNow(sv.P)
  /\ ret < -1
  /\ nlines = 2 /\ Len(out) = 1
  /\ \E i \in DOMAIN transTable.V : transTable.V[i] # 0

(* C2: a weak solve returns -1, 0 or +1.                                   *)
C2_WeakSolveReturnsSign ==
  (SolveReturned /\ weak) => ret \in {-1, 0, 1}

(* C3: the value of a weak solve of a position has the sign of the value   *)
(* of a strong solve of that position on the same solver.                  *)
C3_WeakSignIsStrongSign ==
  \A i \in DOMAIN out : \A j \in DOMAIN out :
    (/\ out[i].line = out[j].line
     /\ ~out[i].analyze /\ ~out[j].analyze
     /\ out[i].weak /\ ~out[j].weak)
    => Sign(out[i].scores[1]) = Sign(out[j].scores[1])

\* a weak and a strong solve of one position with a negative value
C3_Witness ==
  /\ Len(out) = 2
  /\ out[1].line = out[2].line
  /\ ~out[1].analyze /\ ~out[2].analyze
  /\ out[1].weak /\ ~out[2].weak
  /\ out[2].scores[1] < -1

(* C4 as stated: when a strong solve returns k > 0, the side to move wins   *)
(* under optimal play in exactly (empty cells - 2k + 1)/2 plies.           *)
C4_WinInHalfPlies ==
  (SolveReturned /\ ~weak /\ ret > 0)
  => /\ Outcome(sv.P).res = "win"
     /\ Outcome(sv.P).plies = Half(EmptyCells(sv.P) - 2 * ret + 1)

(* C4 amended: when a strong solve returns k > 0, the side to move wins    *)
(* under optimal play in exactly 2 * ((empty cells - 2k + 1)/2) + 1 plies: *)
(* (empty cells - 2k + 1)/2 counts the stones the winner plays before the  *)
(* winning one.                                                            *)
C4_WinInPlies ==
  (SolveReturned /\ ~weak /\ ret > 0)
  => /\ Outcome(sv.P).res = "win"
     /\ Outcome(sv.P).plies = 2 * Half(EmptyCells(sv.P) - 2 * ret + 1) + 1

\* a strong solve that found a win which is not immediate
C4_Witness ==
  /\ SolveReturned /\ ~weak /\ ret > 0
  /\ ~CanWinNow(sv.P)
  /\ Outcome(sv.P).plies >= 3

\* analyze has filled the W entries of scores
AnalyzeDone == pc = "analyze" /\ az.col = WIDTH

\* the entries of a finished analyze: INVALID_MOVE exactly for the full
\* columns, the immediate-win score for a winning column, and for a strong
\* analyze the negated value of the position after the column
AnalyzeScoresOk ==
  /\ DOMAIN az.scores = Columns
  /\ \A c \in Columns :
       /\ az.scores[c] = INVALID_MOVE <=> c \notin Playable(az.P)
       /\ (c \in Playable(az.P) /\ WinsBy(az.P, c))
          => az.scores[c] = Half(WIDTH * HEIGHT + 1 - az.P.moves)
       /\ (c \in Playable(az.P) /\ ~WinsBy(az.P, c) /\ ~weak)
          => az.scores[c] = -GameValue(After(az.P, c))

(* C5: analyze returns W entries: INVALID_MOVE exactly for the full        *)
(* columns, (W*H + 1 - moves)/2 for a playable column that wins at once,   *)
(* and else the negated value solve returned for the position after the    *)
(* column, which is never INVALID_MOVE.                                    *)
C5_AnalyzeScores ==
  /\ [](AnalyzeDone => AnalyzeScoresOk)
  /\ [][pc = "analyze_ret"
          => /\ az.col \in Playable(az.P) /\ ~WinsBy(az.P, az.col)
             /\ sv.P = After(az.P, az.col)
             /\ az'.scores = [az.scores EXCEPT ![az.col] = -ret]
             /\ -ret # INVALID_MOVE]_vars

\* a finished analyze of a position with a full column, a winning column
\* and a column that solve was called for
C5_Witness ==
  /\ AnalyzeDone
  /\ \E c \in Columns : c \notin Playable(az.P)
  /\ \E c \in Playable(az.P) : WinsBy(az.P, c)
  /\ \E c \in Playable(az.P) : ~WinsBy(az.P, c) /\ az.scores[c] < 0

(* C6: on one solver, the strong solve of a position with a playable       *)
(* column equals the greatest entry of its strong analyze over the         *)
(* playable columns.                                                       *)
C6_SolveIsBestOfAnalyze ==
  \A i \in DOMAIN out : \A j \in DOMAIN out :
    (/\ out[i].line = line /\ out[j].line = line
     /\ ~out[i].analyze /\ ~out[i].weak
     /\ out[j].analyze /\ ~out[j].weak
     /\ Playable(P) # {})
    => out[i].scores[1] = Max({out[j].scores[c + 1] : c \in Playable(P)})

\* a strong solve and a strong analyze of a position that has a full
\* column, no immediate win and a value other than a draw
C6_Witness ==
  /\ Len(out) = 2
  /\ out[1].line = line /\ out[2].line = line
  /\ ~out[1].analyze /\ ~out[1].weak
  /\ out[2].analyze /\ ~out[2].weak
  /\ Playable(P) # Columns /\ Playable(P) # {}
  /\ ~CanWinNow(P)
  /\ out[1].scores[1] # 0

\* the positions of the driver and of the frames of the calls in progress
LivePositions ==
  {P} \cup (IF pc \in {"analyze", "analyze_ret"} \/ az # NoAnalyze THEN {az.P} ELSE {})
      \cup (IF sv.st # "none" THEN {sv.P} ELSE {})
      \cup {stack[i].P : i \in DOMAIN stack}

(* C7: in every position built by play(seq), playCol on a playable column  *)
(* and play(move) with a move of possible(): popcount(mask) = moves,       *)
(* current_position has no bit outside mask, mask has no sentinel-row bit, *)
(* and the stones of each column are contiguous from row 0.                *)
C7_PositionInvariant ==
  /\ popcount(P.mask) = P.moves
  /\ P.current_position \ P.mask = {}
  /\ \A c \in Columns : Cell(c, HEIGHT) \notin P.mask
  /\ P.mask \subseteq {Cell(c, r) : c \in Columns, r \in Rows}
  /\ \A c \in Columns : \A r \in Rows :
       Cell(c, r) \in P.mask => \A q \in 0..r : Cell(c, q) \in P.mask

\* a position with a full column next to a column that is not empty, built
\* past MaxSeq moves
C7_Witness ==
  /\ \E c \in 0..(WIDTH - 2) :
       /\ ColumnHeight(P, c) = HEIGHT
       /\ ColumnHeight(P, c + 1) \in 1..(HEIGHT - 1)
  /\ P.moves > MaxSeq + 3
  /\ P.current_position # {}

(* C8: no position produced by play(seq) from the empty board, and no      *)
(* position of a frame of analyze, solve or negamax, holds four aligned    *)
(* stones of one player.                                                   *)
C8_NoAlignment ==
  \A pos \in LivePositions : ~HasAlignment(pos)

\* negamax at depth 3 on a position where the move just played blocked
\* nothing: both players hold three stones of some four-cell line
C8_Witness ==
  /\ pc = "negamax"
  /\ Len(stack) >= 3
  /\ \E L \in Lines4 : Cardinality(L \cap Top.P.current_position) = 3
  /\ \E L \in Lines4 : Cardinality(L \cap Opponent(Top.P)) = 3

(* C9: two positions reached by legal moves that differ in                 *)
(* current_position or in mask have different keys.                        *)
C9_KeyInjective ==
  (P.current_position # Q.current_position \/ P.mask # Q.mask) => key(P) # key(Q)

\* two positions with the same stones of the side to move and different
\* stones of the opponent, one of them with a full column
C9_Witness ==
  /\ P.current_position = Q.current_position
  /\ P.mask # Q.mask
  /\ \E c \in Columns : ColumnHeight(P, c) = HEIGHT

\* the image of a bitboard under the reflection of the columns
MirrorBits(S) ==
  {Cell(WIDTH - 1 - c, r) : <<c, r>> \in {t \in Columns \X (0..HEIGHT) : Cell(t[1], t[2]) \in S}}

Mirror(pos) ==
  [current_position |-> MirrorBits(pos.current_position),
   mask |-> MirrorBits(pos.mask), moves |-> pos.moves]

(* C10: two positions reached by legal moves have the same key3 exactly    *)
(* when one is the other or its horizontal mirror image.                   *)
C10_Key3Symmetric ==
  key3(P) = key3(Q) <=> (Q = P \/ Q = Mirror(P))

\* a position that is not symmetric, and its mirror image
C10_Witness ==
  /\ Q = Mirror(P)
  /\ Q # P
  /\ P.moves = MaxPairMoves

------------------------------------------------------------------------------
\* character ch is a legal move on pos: a column of the board that is not
\* full and where the side to move does not complete an alignment
LegalChar(pos, ch) ==
  /\ (ch - 49) \in Playable(pos)
  /\ ~WinsBy(pos, ch - 49)

RECURSIVE PlayedPrefix(_, _, _)
\* the position after the first n characters of seq are played on pos
PlayedPrefix(pos, seq, n) ==
  IF n = 0 THEN pos
  ELSE After(PlayedPrefix(pos, seq, n - 1), seq[n] - 49)

------------------------------------------------------------------------------
\* the calls of put since the last reset that wrote the slot of key k
PutsInSlot(k) == {i \in DOMAIN out : index(transTable, out[i].key) = index(transTable, k)}

(* C12: in a table of odd size whose size times 2^(bits of a partial key)  *)
(* exceeds every key, get(k) returns v when the last put into the slot of  *)
(* k since the last reset was put(k, v), and 0 in every other case.        *)
C12_GetReturnsLastPutOfKey ==
  (pc = "get_ret" /\ transTable.size % 2 = 1
   /\ \A k \in TableKeys(transTable) : k < transTable.size * 2^transTable.kbits)
  => LET k == stack[1].key
     IN  IF PutsInSlot(k) # {} /\ out[Max(PutsInSlot(k))].key = k
         THEN ret = out[Max(PutsInSlot(k))].value
         ELSE ret = 0

\* get(k) after put(k, v) with v not 0 was overwritten by a put of another
\* key that shares the slot of k
C12_Witness ==
  /\ pc = "get_ret" /\ transTable.size % 2 = 1
  /\ LET k == stack[1].key
     IN  /\ PutsInSlot(k) # {}
         /\ out[Max(PutsInSlot(k))].key # k
         /\ out[Max(PutsInSlot(k))].value # 0
         /\ \E i \in PutsInSlot(k) : out[i].key = k /\ out[i].value # 0

------------------------------------------------------------------------------
\* a call of solve is at its entry
SolveStarts == pc = "solve" /\ sv.st = "enter"

\* the slots of the solver's table that hold an entry
PresentSlots == {i \in DOMAIN transTable.V : transTable.V[i] # 0}

(* C13 as stated: whenever a call of solve starts, from main or from       *)
(* analyze, no slot of the solver's transposition table holds an entry.    *)
C13_TableClearedAtSolveStart == SolveStarts => PresentSlots = {}

(* C13 amended: the table is empty at construction only; no step of main,  *)
(* analyze, solve or negamax clears a slot that holds an entry, so a solve *)
(* starts with the entries the earlier calls left.                         *)
C13_TableNeverCleared ==
  [][\A i \in DOMAIN transTable.V : transTable.V[i] # 0 => transTable'.V[i] # 0]_vars

\* main starts the solve of its second line with entries of the first solve
\* in the table
C13_Witness ==
  /\ SolveStarts /\ sv.caller = "main_ret" /\ nlines = 2
  /\ PresentSlots # {}

------------------------------------------------------------------------------
(* C14: whatever the size of the table and whatever call was made in       *)
(* between without a reset, the strong solve of a position returns what    *)
(* the strong solve of that position returned on the new solver.           *)
C14_SolveIndependentOfTable ==
  (nlines = 3 /\ pc = "main") => out[Len(out)].scores = out[1].scores

\* a second solve, on a table of fewer slots than the solver's, after a
\* call on another position, of a position that is not a draw
C14_Witness ==
  /\ nlines = 3 /\ pc = "main" /\ Len(out) = 3
  /\ transTable.size < SolverTable.size
  /\ out[2].line # out[1].line
  /\ out[1].scores[1] # 0
  /\ ~CanWinNow(P)

------------------------------------------------------------------------------
\* the file is one that load cannot read a book from: it is missing, it ends
\* within its header or its arrays, or a byte of its header is not the width,
\* the height, a depth of at most WIDTH * HEIGHT, a partial key of 1, 2 or 4
\* bytes, a value of 1 byte, a log_size of 21 to 27
Rejected(F) ==
  \/ ~F.exists
  \/ Len(F.header) < 6
  \/ F.header[1] # WIDTH
  \/ F.header[2] # HEIGHT
  \/ F.header[3] > WIDTH * HEIGHT
  \/ F.header[4] \notin {1, 2, 4}
  \/ F.header[5] # 1
  \/ F.header[6] \notin 21..27
  \/ F.keyLen < BigSize[F.header[6]] * F.header[4]
  \/ F.valueLen < BigSize[F.header[6]]

\* load has returned, and get if pc = "got"
Loaded == pc \in {"loaded", "got"}

(* C15: after load has failed, for whatever reason, depth is -1 and get    *)
(* returns 0 for every position without reading the pointer to the table.  *)
C15_FailedLoadGivesEmptyBook ==
  (Loaded /\ Rejected(out))
  => /\ book.depth = -1
     /\ pc = "got" => (ret = 0 /\ ~sv.readT)

\* get of a position whose entry is in the table that load filled from a
\* file cut within its array of values
C15_Witness ==
  /\ pc = "got" /\ Rejected(out)
  /\ book.T \notin {NullTable, DeletedTable}
  /\ BigTableGet(book.T, key3(sv.P)) # 0

------------------------------------------------------------------------------
\* no two entries the generator stored share a slot of its table
NoSharedSlot ==
  \A i, j \in DOMAIN stack :
    i # j => index(transTable, key3(stack[i].P)) # index(transTable, key3(stack[j].P))

(* C16: a book saved from a table where no two stored entries share a slot *)
(* and loaded from the file as saved has the depth that was saved, and get *)
(* returns the stored value of every stored position of at most depth      *)
(* moves.                                                                  *)
C16_BookRoundTrip ==
  (Loaded /\ Intact(out) /\ NoSharedSlot)
  => /\ book.depth = DEPTH
     /\ \A i \in DOMAIN stack :
          /\ nbMoves(stack[i].P) <= DEPTH => BookGet(book, stack[i].P) = stack[i].value
          /\ (pc = "got" /\ sv.P = stack[i].P) => ret = stack[i].value

\* get of the second of two stored positions, of different values, after
\* the file was loaded as saved
C16_Witness ==
  /\ pc = "got" /\ Intact(out) /\ NoSharedSlot
  /\ Len(stack) = 2
  /\ stack[1].value # stack[2].value
  /\ sv.P = stack[2].P /\ nbMoves(sv.P) > 0
  /\ ret = stack[2].value

------------------------------------------------------------------------------
(* C17: main writes one line to standard output for every line it reads:   *)
(* for a line that is not a legal sequence of moves, an empty one.         *)
C17_OneOutputLinePerInputLine ==
  pc = "main" => Len(out) = nlines

------------------------------------------------------------------------------
\* the loop of the constructor has ended on a board of width 7
Constructed7 == pc = "ctor_ret" /\ ret = 7

(* C20: after the construction of a Solver on a board of width 7,          *)
(* columnOrder[0..6] is 3, 4, 2, 5, 1, 6, 0.                               *)
C20_ColumnOrderOfWidth7 ==
  Constructed7 => stack = <<3, 4, 2, 5, 1, 6, 0>>

------------------------------------------------------------------------------
\* the line "4455454"
Line4455454 == <<52, 52, 53, 53, 52, 53, 52>>

\* play has returned for the line "4455454"
Played4455454 == line = Line4455454 /\ pc = "play_ret"

\* solve has taken its first branch for the line "4455454"
Solving4455454 == line = Line4455454 /\ pc \in {"solve_ret", "solve_loop"}

(* C18 as stated: on the 7x6 board the line "4455454" is accepted in full  *)
(* by play, the side to move can win at once (canWinNext), and solve       *)
(* returns the value of a win in one move, (42 + 1 - 7)/2 = 18.            *)
C18_ImmediateWinAfter4455454 ==
  /\ Played4455454 => ret = 7 /\ canWinNextOn(SourceBoard, P)
  /\ Solving4455454 => pc = "solve_ret" /\ ret = 18

(* C18 amended: on the 7x6 board the line "4455454" is accepted in full by *)
(* play; the side to move is then the second player, who has no winning    *)
(* move (canWinNext is false), so solve does not return the value 18 of a  *)
(* win in one move: it enters its search with min = -17 and max = 18.      *)
C18_NoImmediateWinAfter4455454 ==
  /\ Played4455454 =>
       /\ ret = 7
       /\ nbMoves(P) = 7
       /\ ~canWinNextOn(SourceBoard, P)
  /\ Solving4455454 =>
       /\ pc = "solve_loop"
       /\ sv.min = -17
       /\ sv.max = 18

C18_Witness == Solving4455454 /\ sv.P = P /\ nbMoves(P) = 7

------------------------------------------------------------------------------
\* the innermost call of negamax returns in this step
NegamaxReturnStep == pc = "negamax" /\ Len(stack') < Len(stack)

\* the alpha the caller passed to the innermost call: the probe of solve, or
\* -beta of the calling negamax, which waits with alpha and beta unchanged
CallerAlpha ==
  IF Len(stack) = 1 THEN sv.med ELSE -stack[Len(stack) - 1].beta

\* the beta the caller passed to the innermost call
CallerBeta ==
  IF Len(stack) = 1 THEN sv.med + 1 ELSE -stack[Len(stack) - 1].alpha

\* the documented relation of a returned value r to the value v
NegamaxContract(v, alpha, beta, r) ==
  /\ v <= alpha => v <= r /\ r <= alpha
  /\ v >= beta => beta <= r /\ r <= v
  /\ (alpha <= v /\ v <= beta) => r = v

(* C21: every call negamax(P, alpha, beta) made during solve returns r    *)
(* with V(P) <= r <= alpha if V(P) <= alpha, beta <= r <= V(P) if          *)
(* V(P) >= beta, and r = V(P) if alpha <= V(P) <= beta, for the alpha and  *)
(* beta the caller passed, whatever earlier calls left in the table.       *)
C21_NegamaxReturnContract ==
  [][NegamaxReturnStep =>
       NegamaxContract(GameValue(Top.P), CallerAlpha, CallerBeta, ret')]_vars

\* a recursive call has returned a value at most the alpha it was given, on
\* a solver whose table holds the entries of the solve of an earlier line
C21_Witness ==
  /\ pc = "negamax" /\ Top.st = "wait"
  /\ -ret >= Top.beta
  /\ nlines = 2 /\ Len(out) = 1
  /\ \E i \in DOMAIN transTable.V : transTable.V[i] # 0

------------------------------------------------------------------------------
\* the calls of negamax that are at their entry
EnteringFrames == {i \in DOMAIN stack : stack[i].st = "enter"}

(* C22: in every call of negamax reachable from solve or analyze, the      *)
(* recursive ones included, alpha < beta and !P.canWinNext() hold on       *)
(* entry: no assertion of negamax or possibleNonLosingMoves fails, and the *)
(* opening book is never asked about a position with a win in one move.    *)
C22_NegamaxPreconditions ==
  /\ pc # "abort"
  /\ \A i \in EnteringFrames :
       stack[i].alpha < stack[i].beta /\ ~canWinNext(stack[i].P)

\* a recursive call at its entry, in a search started by analyze
C22_Witness ==
  /\ pc = "negamax" /\ Len(stack) >= 3 /\ Top.st = "enter"
  /\ analyze /\ sv.caller = "analyze_ret"

------------------------------------------------------------------------------
\* the possible moves after which the opponent has no win in one move
MovesNotLosing(pos) ==
  {m \in possible(pos) : ~canWinNext(play(pos, {m}))}

(* C23: in every reachable position where the side to move cannot win in   *)
(* one move, possibleNonLosingMoves() is the set of the moves of           *)
(* possible() after which the opponent has no winning move; it is 0        *)
(* exactly when every legal move lets the opponent win next.               *)
C23_NonLosingMovesExact ==
  ~canWinNext(P) =>
    /\ possibleNonLosingMoves(P) = MovesNotLosing(P)
    /\ possibleNonLosingMoves(P) = {}
         <=> \A m \in possible(P) : canWinNext(play(P, {m}))

\* one move is forced and it is not losing, while other columns are open
C23_Witness ==
  /\ ~canWinNext(P)
  /\ Cardinality(possibleNonLosingMoves(P)) = 1
  /\ Cardinality(possible(P)) >= 3
  /\ possibleNonLosingMoves(P) \subseteq opponent_winning_position(P)

------------------------------------------------------------------------------
\* the cells of the board, without the sentinel row
BoardCells == {Cell(c, r) : c \in Columns, r \in Rows}

\* the empty cells of the board that complete, with three of the stones S,
\* one of the four-cell lines
CompletingCells(S, mask) ==
  {x \in BoardCells \ mask : \E L \in Lines4 : x \in L /\ (L \ {x}) \subseteq S}

(* C24: in every reachable position and for the stones pos of either       *)
(* player, compute_winning_position(pos, mask) has bit x set exactly when  *)
(* x is an empty cell of the board (any cell still to be played, whether   *)
(* or not it is the lowest of its column) and pos with x holds four        *)
(* aligned cells that include x; no shift pairs stones through the         *)
(* sentinel row.                                                           *)
C24_WinningCellsExact ==
  /\ compute_winning_position(P.current_position, P.mask)
       = CompletingCells(P.current_position, P.mask)
  /\ compute_winning_position(Opponent(P), P.mask)
       = CompletingCells(Opponent(P), P.mask)

\* the side to move has a winning cell on a line that is not a column, and
\* one that is not yet the lowest empty cell of its column
C24_Witness ==
  /\ \E x \in winning_position(P) : x \notin possible(P)
  /\ \E x \in winning_position(P) : Cell(0, 0) + x - 1 \notin P.current_position
  /\ opponent_winning_position(P) # {}

------------------------------------------------------------------------------
\* the lowest empty cell of a column that is not full
LowestEmpty(pos, c) == Cell(c, ColumnHeight(pos, c))

(* C25: in every reachable position possible() has exactly one bit in each *)
(* column c with canPlay(c), the lowest empty cell of c, which is the cell *)
(* playCol(c) plays, and no bit in a full column nor outside the columns:  *)
(* the carry of mask + bottom_mask never reaches a neighbouring column.    *)
C25_PossibleIsLowestEmptyCells ==
  /\ \A c \in Columns :
       IF canPlay(P, c)
       THEN /\ possible(P) \cap column_mask(c) = {LowestEmpty(P, c)}
            /\ playCol(P, c).mask = P.mask \cup {LowestEmpty(P, c)}
       ELSE /\ ColumnHeight(P, c) = HEIGHT
            /\ possible(P) \cap column_mask(c) = {}
  /\ possible(P) \subseteq BoardCells

\* a full column next to an empty one, and a column that is partly filled
C25_Witness ==
  /\ \E c \in Columns : ~canPlay(P, c) /\ c + 1 \in Columns
                        /\ ColumnHeight(P, c + 1) = 0
  /\ \E c \in Columns : ColumnHeight(P, c) \in 1..(HEIGHT - 1)

------------------------------------------------------------------------------
\* negamax is about to store the upper bound alpha: the moves are used up
PutsUpper == pc = "negamax" /\ Top.st = "loop" /\ SorterGetNext(Top.moves).move = {}

\* negamax is about to store the lower bound score = -ret
PutsLower == pc = "negamax" /\ Top.st = "wait" /\ -ret >= Top.beta

\* the value given to put is in the range lo..hi and the entry it leaves in
\* the table reads back as the bound b
StoresBound(value, lo, hi, b) ==
  /\ value \in lo..hi
  /\ value # 0 /\ value < 256
  /\ DecodeBound(TableGet(transTable', key(Top.P))) = b

(* C26: every value negamax gives to transTable.put is not 0 and fits the  *)
(* 8 bits of a slot, an upper bound is in 1..MAX_SCORE-MIN_SCORE+1 and a   *)
(* lower bound in MAX_SCORE-MIN_SCORE+2..2*(MAX_SCORE-MIN_SCORE)+2, and    *)
(* the probe decodes the entry to the kind of bound and the score stored.  *)
C26_StoredBoundsDecode ==
  [][/\ PutsUpper =>
          StoresBound(EncodeUpper(Top.alpha), 1, MAX_SCORE - MIN_SCORE + 1,
                      [kind |-> "upper", score |-> Top.alpha])
     /\ PutsLower =>
          StoresBound(EncodeLower(-ret), MAX_SCORE - MIN_SCORE + 2,
                      2 * (MAX_SCORE - MIN_SCORE) + 2,
                      [kind |-> "lower", score |-> -ret])]_vars

\* the table holds a lower and an upper bound, read back at the entry of a
\* call of negamax on a position with at most three stones
C26_Witness ==
  /\ pc = "negamax" /\ Top.st = "enter" /\ nbMoves(Top.P) <= 3
  /\ TableGet(transTable, key(Top.P)) # 0
  /\ \E i \in DOMAIN transTable.V :
       transTable.V[i] # 0 /\ DecodeBound(transTable.V[i]).kind = "lower"
  /\ \E i \in DOMAIN transTable.V :
       transTable.V[i] # 0 /\ DecodeBound(transTable.V[i]).kind = "upper"

------------------------------------------------------------------------------
\* number of bits of a key
KeyBits == WIDTH * (HEIGHT + 1)

\* the keys that slot i of the table can stand for: the partial key of the
\* slot completed by the bits it leaves out, at the index of the slot
KeysOfSlot(T, i) ==
  LET rest == IF T.kbits >= KeyBits THEN {0}
              ELSE {t * 2^T.kbits : t \in 0..(2^(KeyBits - T.kbits) - 1)}
  IN  {k \in {T.K[i] + r : r \in rest} : k % T.size = i}

\* the position with key k: in a column of h stones the key is the stones
\* of the side to move plus 2^h - 1
PositionOfKey(k) ==
  LET col(c) == (k \div 2^(c * (HEIGHT + 1))) % 2^(HEIGHT + 1)
      height(c) == CHOOSE h \in 0..HEIGHT :
                     2^h - 1 <= col(c) /\ col(c) <= 2^(h + 1) - 2
      stones(c) == NatToBits(col(c) - (2^height(c) - 1))
      m == {Cell(c, r) : c \in Columns, r \in Rows} \cap
           UNION {{Cell(c, r) : r \in 0..(height(c) - 1)} : c \in Columns}
  IN  [current_position |-> UNION {{Cell(c, r) : r \in stones(c)} : c \in Columns},
       mask |-> m,
       moves |-> Cardinality(m)]

\* the table value val is a true bound of the value of pos
TrueBound(pos, val) ==
  IF DecodeBound(val).kind = "upper"
  THEN GameValue(pos) <= DecodeBound(val).score
  ELSE GameValue(pos) >= DecodeBound(val).score

\* the slots that hold an entry of table T which table S does not hold
NewSlots(S, T) ==
  {i \in DOMAIN T.V : T.V[i] # 0 /\ (T.V[i] # S.V[i] \/ T.K[i] # S.K[i])}

\* the entry of slot i of T is a true bound of the position of its key
TrueEntry(T, i) ==
  /\ KeysOfSlot(T, i) # {}
  /\ \A pos \in {PositionOfKey(k) : k \in KeysOfSlot(T, i)} :
       TrueBound(pos, T.V[i])

(* C27: at every moment of any sequence of calls of solve and analyze,     *)
(* strong or weak, with or without a reset between them, every entry of    *)
(* the table is a true bound of the position whose key it holds: V <= u    *)
(* for an entry that decodes to the upper bound u, V >= l for one that     *)
(* decodes to the lower bound l.  The table starts empty and the value of  *)
(* a position does not change, so this is stated of every entry at the     *)
(* step that writes it.                                                    *)
C27_TableEntriesAreTrueBounds ==
  [][\A i \in NewSlots(transTable, transTable') : TrueEntry(transTable', i)]_vars

\* during the second call, strong after a weak one and no reset, the table
\* holds an upper and a lower bound and negamax has just written an entry
C27_Witness ==
  /\ nlines = 2 /\ Len(out) = 1 /\ out[1].weak /\ ~weak
  /\ pc = "negamax" /\ ret # 0
  /\ TableGet(transTable, key(Top.P)) # 0
  /\ \E i \in DOMAIN transTable.V :
       transTable.V[i] # 0 /\ DecodeBound(transTable.V[i]).kind = "lower"
  /\ \E i \in DOMAIN transTable.V :
       transTable.V[i] # 0 /\ DecodeBound(transTable.V[i]).kind = "upper"

------------------------------------------------------------------------------
\* the place of the a-th pair added in the order of non-increasing scores,
\* the later added first among equal scores
SorterRank(a) ==
  1 + Cardinality({b \in 1..Len(out) :
                     \/ out[b].score > out[a].score
                     \/ out[b].score = out[a].score /\ b > a})

\* the index in columnOrder of the column of a move
OrderIndex(move) ==
  CHOOSE i \in 0..(WIDTH - 1) : move \subseteq column_mask(columnOrder[i])

(* C28: after n <= W pairs are added to an empty MoveSorter, n calls of    *)
(* getNext return the moves added in the order of non-increasing scores,   *)
(* the later added first among equal scores, and every further call        *)
(* returns 0; so the moves of equal moveScore of a position come out of    *)
(* the sorter of negamax in the order of columnOrder, lower index first.   *)
C28_SorterOrder ==
  /\ pc = "sorter_add" =>
       \A j \in 1..Len(line) :
         IF j <= Len(out)
         THEN \E a \in 1..Len(out) : SorterRank(a) = j /\ line[j] = out[a].move
         ELSE line[j] = {}
  /\ pc = "sorter_fill" =>
       \A j \in 1..Len(line), k \in 1..Len(line) :
         /\ line[j] = {} => line[k] = {} \/ k < j
         /\ (j < k /\ line[k] # {}) =>
              /\ moveScore(P, line[j]) >= moveScore(P, line[k])
              /\ moveScore(P, line[j]) = moveScore(P, line[k])
                   => OrderIndex(line[j]) < OrderIndex(line[k])

\* four pairs added, two of them with the same score, and all returned,
\* then one more call
C28_Witness ==
  /\ pc = "sorter_add" /\ Len(out) = WIDTH /\ Len(line) = WIDTH + 1
  /\ \E a \in 1..Len(out), b \in 1..Len(out) :
       a < b /\ out[a].score = out[b].score /\ out[a].score > out[1].score

------------------------------------------------------------------------------
\* solve waits for the negamax call of its probe
SolveProbing == pc # "main" /\ sv.st = "wait"

\* the frames of negamax are one stone apart, from the position of solve on
OneMoreStonePerCall ==
  \A i \in DOMAIN stack :
    /\ nbMoves(stack[i].P) = nbMoves(sv.P) + i - 1
    /\ nbMoves(stack[i].P) <= WIDTH * HEIGHT

(* C29: every call of solve returns: in each turn of the narrowing loop    *)
(* min <= med < max, the turn makes max strictly smaller or min strictly   *)
(* greater, and each recursive call of negamax is on a position with one   *)
(* more stone.                                                             *)
C29_SolveTerminates ==
  /\ [](SolveProbing => sv.min <= sv.med /\ sv.med < sv.max)
  /\ []OneMoreStonePerCall
  /\ [][(pc = "solve" /\ sv.st = "wait") =>
          \/ sv'.max < sv.max /\ sv'.min = sv.min
          \/ sv'.min > sv.min /\ sv'.max = sv.max]_vars
  /\ (pc = "solve" /\ sv.st = "enter") ~> SolveReturned

\* a strong solve from main that needed three probes or more has returned
C29_Witness ==
  /\ pc = "main_ret" /\ ~weak
  /\ sv.min = ret /\ sv.max < Half(WIDTH * HEIGHT + 1 - nbMoves(sv.P)) - 1
  /\ sv.min > Half(-(WIDTH * HEIGHT - nbMoves(sv.P))) + 1
  /\ ~canWinNext(sv.P)

(* C30: for any sequence of calls of load, each one succeeding or failing  *)
(* at any place, and then the destruction of the book, every allocated     *)
(* table is freed exactly once: no table is deleted a second time by load  *)
(* or by the destructor.                                                   *)
C30_EveryTableFreedOnce ==
  /\ \A t \in DOMAIN stack : stack[t] <= 1
  /\ pc = "destroyed" => \A t \in DOMAIN stack : stack[t] = 1

====
